---- MODULE Spec2Model ----
(***************************************************************************)
(* State-machine model of the obeSOL single-validator liquid-staking pool  *)
(* (src/src/processor.rs, state.rs, utils.rs).                             *)
(*                                                                         *)
(* One action per instruction handler.  A handler is a pure operator that  *)
(* walks the checks and cross-program calls of the Rust code in order and  *)
(* returns the result code together with the ledger it leaves; the host    *)
(* commits that ledger only when the result is Ok (all-or-nothing          *)
(* transaction semantics of the runtime).                                  *)
(*                                                                         *)
(* Amounts are lamports.  u64 is modelled with a reduced width (U64_MAX),  *)
(* and the registry's default stake bounds are reduced with it, so that    *)
(* the checked-arithmetic failure paths are inside the explored space.     *)
(***************************************************************************)
EXTENDS Integers, FiniteSets, Sequences, TLC

(***************************************************************************)
(* Bounds of the model.                                                    *)
(***************************************************************************)
\* largest value of the reduced-width u64; also the "never deactivated"
\* sentinel std::u64::MAX of a delegation's deactivation_epoch
U64_MAX == 7
\* largest value of the u128 intermediate of the ratio computations
U128_MAX == (U64_MAX + 1) * (U64_MAX + 1) - 1
\* registry default min_stake / max_stake, reduced with the width
MIN_STAKE == 2
MAX_STAKE == 4
\* rent-exempt minimum of a stake account (Rent::minimum_balance)
RENT == 1
\* native balance every user wallet starts with
WALLET == 5
\* last epoch the clock reaches
MaxEpoch == 1

(***************************************************************************)
(* Addresses.  find_program_address is modelled as an injective function   *)
(* of its seed list (program id fixed): the derived address is the         *)
(* bracketed seed list, so two derivations agree exactly when their seeds  *)
(* agree.                                                                  *)
(***************************************************************************)
Users == {"u1", "u2"}
Creator == "creator"
VALIDATOR == "vote_V"
OTHER_VALIDATOR == "vote_W"
FAKE_MINT == "fake_mint"
BOGUS == "bogus"
NONE == "none"
\* a stake account created outside the program, and the key that created it
EXTERNAL_STAKE == "ext_stake"
EXTERNAL_OWNER == "ext_owner"
\* an account created outside the program and assigned to it: zero-filled
\* data of the size of a registry with an empty name
ZEROED_POOL == "zeroed_pool"

\* the seeds of a derivation, joined with a separator
RECURSIVE JoinSeeds(_)
JoinSeeds(seeds) ==
    IF seeds = <<>> THEN ""
    ELSE IF Len(seeds) = 1 THEN Head(seeds)
    ELSE Head(seeds) \o "," \o JoinSeeds(Tail(seeds))

find_program_address(seeds) == "pda(" \o JoinSeeds(seeds) \o ")"

PoolPda(authority) == find_program_address(<<authority, "obelisk_pool_04">>)
POOL == PoolPda(Creator)
StakeAuthorityPda(pool_key) == find_program_address(<<"stake_authority", pool_key>>)
WithdrawAuthorityPda(pool_key) == find_program_address(<<"withdraw_authority", pool_key>>)
MintPda(pool_key) == find_program_address(<<pool_key, "mint">>)
\* the stake record address derived without the user's key
StakeAccountPda_no_user(pool_key, user, stake_authority) ==
    find_program_address(<<"stake_account", pool_key, stake_authority>>)

StakeAccountPda(pool_key, user, stake_authority) ==
    find_program_address(<<"stake_account", pool_key, user, stake_authority>>)

\* the stake record address the controller derives for user u
UserStake(u) == StakeAccountPda(POOL, u, StakeAuthorityPda(POOL))
StakeAddrs == {UserStake(u) : u \in Users} \cup {EXTERNAL_STAKE}

(***************************************************************************)
(* The registry (state.rs StakePool) and the external records.             *)
(***************************************************************************)
\* StakePool::default(): the registry account before Initialize
DefaultStakePool ==
    [ version |-> 0, authority |-> NONE, stake_authority |-> NONE,
      withdraw_authority |-> NONE, name_len |-> 0, fee_percentage |-> 0,
      total_staked |-> 0, total_shares |-> 0, mint |-> NONE,
      helius_validator_vote |-> NONE, paused |-> FALSE,
      last_update_epoch |-> 0, min_stake |-> 0, max_stake |-> 0 ]

\* the version check accepting every record
is_initialized_always(sp) == TRUE

is_initialized(sp) == sp.version > 0

\* a stake account that does not exist (zero lamports, system-owned)
NoStake ==
    [ state |-> "Uninitialized", staker |-> NONE, withdrawer |-> NONE,
      voter |-> NONE, stake |-> 0, activation_epoch |-> 0,
      deactivation_epoch |-> U64_MAX, lamports |-> 0 ]

VARIABLES
    pool,      \* the registry record stored in the pool account
    stakes,    \* stake account address -> stake record (stake program state)
    tokens,    \* user -> balance of the pool's claim-token (pool mint)
    wallet,    \* user -> native balance of the user's own account
    epoch,     \* Clock::epoch
    last       \* the last committed call: its inputs, epoch and effects

vars == <<pool, stakes, tokens, wallet, epoch, last>>


(***************************************************************************)
(* Checked arithmetic (u64 / u128).  NULL stands for Option::None.         *)
(***************************************************************************)
NULL == -1

\* u64 addition that wraps instead of failing
wrapping_add(a, b) == (a + b) % (U64_MAX + 1)

checked_add(a, b) == IF a + b > U64_MAX THEN NULL ELSE a + b
\* u64 subtraction with the operands exchanged
checked_sub_reversed(a, b) == IF b - a < 0 THEN NULL ELSE b - a

\* u64 subtraction that stops at zero instead of failing
saturating_sub(a, b) == IF a < b THEN 0 ELSE a - b

checked_sub(a, b) == IF a < b THEN NULL ELSE a - b
checked_mul(a, b) == IF a * b > U64_MAX THEN NULL ELSE a * b
checked_div(a, b) == IF b = 0 THEN NULL ELSE a \div b
checked_mul_u128(a, b) == IF a * b > U128_MAX THEN NULL ELSE a * b
checked_div_u128(a, b) == IF b = 0 THEN NULL ELSE a \div b
try_into_u64(x) == IF x > U64_MAX THEN NULL ELSE x

\* (a as u128).checked_mul(b as u128)?.checked_div(c as u128)?.try_into()?
mul_div(a, b, c) ==
    LET m == checked_mul_u128(a, b) IN
    IF m = NULL THEN NULL
    ELSE LET d == checked_div_u128(m, c) IN
         IF d = NULL THEN NULL ELSE try_into_u64(d)

\* the minting rule with the bootstrap case taken on total_staked alone
pool_tokens_to_mint_staked_only(sp, amount) ==
    IF sp.total_staked = 0
    THEN amount
    ELSE mul_div(amount, sp.total_shares, sp.total_staked)

\* the minting rule with the ratio inverted
pool_tokens_to_mint_inverted(sp, amount) ==
    IF sp.total_shares = 0 \/ sp.total_staked = 0
    THEN amount
    ELSE mul_div(amount, sp.total_staked, sp.total_shares)

\* process_stake: pool_tokens_to_mint (NULL = MathOverflow)
pool_tokens_to_mint(sp, amount) ==
    IF sp.total_shares = 0 \/ sp.total_staked = 0
    THEN amount
    ELSE mul_div(amount, sp.total_shares, sp.total_staked)

\* the withdrawal rule with the ratio inverted
sol_to_withdraw_inverted(sp, pool_token_amount) ==
    IF sp.total_shares > 0 /\ sp.total_staked > 0
    THEN mul_div(pool_token_amount, sp.total_shares, sp.total_staked)
    ELSE 0

\* the withdrawal rule dividing before it multiplies
sol_to_withdraw_div_first(sp, pool_token_amount) ==
    IF sp.total_shares > 0 /\ sp.total_staked > 0
    THEN try_into_u64((pool_token_amount \div sp.total_shares) * sp.total_staked)
    ELSE 0

\* process_unstake: sol_to_withdraw (NULL = MathOverflow)
sol_to_withdraw(sp, pool_token_amount) ==
    IF sp.total_shares > 0 /\ sp.total_staked > 0
    THEN mul_div(pool_token_amount, sp.total_staked, sp.total_shares)
    ELSE 0

(***************************************************************************)
(* External collaborators: system program, token program, stake program.  *)
(* Each operator is one cross-program call; ok = FALSE is the callee       *)
(* returning an error, which the handler propagates with `?`.              *)
(***************************************************************************)
RECURSIVE SumOver(_, _)
SumOver(f, S) ==
    IF S = {} THEN 0
    ELSE LET x == CHOOSE y \in S : TRUE IN f[x] + SumOver(f, S \ {x})

\* outstanding supply of the pool's own mint
Supply(tk) == SumOver(tk, Users)

\* system_instruction::transfer out of a user's own account
SystemTransfer(wl, from, lamports) ==
    IF wl[from] < lamports
    THEN [ok |-> FALSE, wallet |-> wl]
    ELSE [ok |-> TRUE, wallet |-> [wl EXCEPT ![from] = @ - lamports]]

\* spl_token mint_to signed by `authority`.  The pool mint's authority is the
\* stake authority (initialize_mint); a foreign mint can carry any authority
\* and its balances are not the pool's, so they are not tracked.
TokenMintTo(tk, mint, owner, authority, amount) ==
    IF mint = MintPda(POOL)
    THEN IF authority # StakeAuthorityPda(POOL) \/ Supply(tk) + amount > U64_MAX
         THEN [ok |-> FALSE, tokens |-> tk]
         ELSE [ok |-> TRUE, tokens |-> [tk EXCEPT ![owner] = @ + amount]]
    ELSE [ok |-> TRUE, tokens |-> tk]

\* spl_token burn signed by the token account's owner
TokenBurn(tk, mint, owner, amount) ==
    IF mint = MintPda(POOL)
    THEN IF tk[owner] < amount
         THEN [ok |-> FALSE, tokens |-> tk]
         ELSE [ok |-> TRUE, tokens |-> [tk EXCEPT ![owner] = @ - amount]]
    ELSE [ok |-> TRUE, tokens |-> tk]

\* effective (active) stake of a delegation at epoch ep, with warm-up and
\* cool-down each completing at the next epoch boundary
EffectiveStake(r, ep) ==
    IF r.activation_epoch = r.deactivation_epoch THEN 0
    ELSE IF ep <= r.activation_epoch THEN 0
    ELSE IF ep <= r.deactivation_epoch THEN r.stake
    ELSE 0

\* stake account creation that hands the withdrawer role to the pool's
\* withdraw authority whatever the caller asked for
StakeInitialize_pool_withdrawer(r, staker, withdrawer) ==
    [ NoStake EXCEPT !.state = "Initialized", !.staker = staker,
                     !.withdrawer = WithdrawAuthorityPda(POOL),
                     !.lamports = RENT ]

\* system create_account (funded with the rent minimum, owned by the stake
\* program) followed by stake_instruction::initialize(Authorized, no lockup)
StakeInitialize(r, staker, withdrawer) ==
    [ NoStake EXCEPT !.state = "Initialized", !.staker = staker,
                     !.withdrawer = withdrawer, !.lamports = RENT ]

\* stake_instruction::delegate_stake signed by `signer`
StakeDelegate(r, voter, signer, ep) ==
    IF r.state = "Initialized" /\ signer = r.staker /\ r.lamports > RENT
    THEN [ok |-> TRUE,
          rec |-> [r EXCEPT !.state = "Stake", !.voter = voter,
                            !.stake = r.lamports - RENT,
                            !.activation_epoch = ep,
                            !.deactivation_epoch = U64_MAX]]
    ELSE IF r.state = "Stake" /\ signer = r.staker
    THEN IF EffectiveStake(r, ep) # 0
         THEN IF r.voter = voter /\ r.deactivation_epoch = ep
              THEN [ok |-> TRUE, rec |-> [r EXCEPT !.deactivation_epoch = U64_MAX]]
              ELSE [ok |-> FALSE, rec |-> r]
         ELSE [ok |-> TRUE,
               rec |-> [r EXCEPT !.voter = voter,
                                 !.stake = r.lamports - RENT,
                                 !.activation_epoch = ep,
                                 !.deactivation_epoch = U64_MAX]]
    ELSE [ok |-> FALSE, rec |-> r]

\* stake_instruction::deactivate_stake signed by `signer`
StakeDeactivate(r, signer, ep) ==
    IF r.state = "Stake" /\ signer = r.staker /\ r.deactivation_epoch = U64_MAX
    THEN [ok |-> TRUE, rec |-> [r EXCEPT !.deactivation_epoch = ep]]
    ELSE [ok |-> FALSE, rec |-> r]

\* stake_instruction::withdraw of `lamports` signed by `signer`
StakeWithdraw(r, signer, lamports, ep) ==
    LET staked == IF r.state = "Stake"
                  THEN IF ep >= r.deactivation_epoch THEN EffectiveStake(r, ep)
                       ELSE r.stake
                  ELSE 0
    IN
    IF r.state \in {"Initialized", "Stake"} /\ signer = r.withdrawer
       /\ lamports = r.lamports /\ staked = 0
    THEN [ok |-> TRUE, rec |-> NoStake]
    ELSE [ok |-> FALSE, rec |-> r]


(***************************************************************************)
(* Handlers.  L is the ledger [pool, stakes, tokens, wallet] the call      *)
(* starts from, c the call (instruction data and supplied accounts), ep    *)
(* the clock's epoch.  The value returned carries the result code, the     *)
(* ledger the handler leaves, the amounts it computed or moved, and `done`,*)
(* the external effects it had performed when it returned.                 *)
(***************************************************************************)
Ret(result, L, minted, native, moved, done) ==
    [ result |-> result, ledger |-> L, minted |-> minted, native |-> native,
      moved |-> moved, done |-> done ]

Err(code, L, done) == Ret(code, L, 0, 0, 0, done)

\* assert_owned_by(stake_pool_info, program_id): the pool account is owned by
\* this program once create_or_allocate_account_raw has assigned it
PoolOwnedByProgram(L, c) ==
    \/ c.pool_key = POOL /\ L.pool.version > 0
    \/ c.pool_key = ZEROED_POOL

\* StakePool::try_from_slice(&stake_pool_info.data.borrow()): the record
\* stored in the account the caller passed as the registry.  Zero-filled
\* data decodes to the all-zero record, which is StakePool::default().
load_stake_pool(L, c) ==
    IF c.pool_key = ZEROED_POOL THEN DefaultStakePool ELSE L.pool

\* assert_owned_by(pool_mint_info, spl_token::id())
MintOwnedByToken(L, c) ==
    \/ c.mint = FAKE_MINT
    \/ c.mint = MintPda(POOL) /\ L.pool.version > 0

\* stake account owned by the stake program (it exists)
StakeOwnedByStakeProgram(L, addr) ==
    addr \in DOMAIN L.stakes /\ L.stakes[addr].state # "Uninitialized"

stake_lamports(L, addr) ==
    IF addr \in DOMAIN L.stakes THEN L.stakes[addr].lamports ELSE 0

\* the stake-authority check comparing the derivation with the stored
\* authority only, not with the account the caller passed
stake_authority_mismatch_stored_only(sp, c) ==
    StakeAuthorityPda(c.pool_key) # sp.stake_authority

\* process_stake: the derived stake authority must equal both the stored one
\* and the account passed by the caller
stake_authority_mismatch(sp, c) ==
    LET expected_stake_authority_pda == StakeAuthorityPda(c.pool_key) IN
    \/ expected_stake_authority_pda # sp.stake_authority
    \/ expected_stake_authority_pda # c.stake_authority

\* the paused check never firing
pool_paused_never(sp) == FALSE

\* the paused check with its sense inverted
pool_paused_inverted(sp) == ~sp.paused

\* process_stake / process_unstake: stake_pool.paused
pool_paused(sp) == sp.paused

\* the validator check never firing
validator_mismatch_never(sp, c) == FALSE

\* process_stake: the validator account passed against the pinned validator
validator_mismatch(sp, c) == c.validator # sp.helius_validator_vote

\* the bounds check without its lower bound
stake_amount_check_no_minimum(sp, amount) ==
    IF amount > sp.max_stake THEN "StakeTooLarge" ELSE "Ok"

\* the bounds check rejecting the bounds themselves
stake_amount_check_exclusive(sp, amount) ==
    IF amount <= sp.min_stake THEN "StakeTooSmall"
    ELSE IF amount >= sp.max_stake THEN "StakeTooLarge"
    ELSE "Ok"

\* process_stake: the amount against the registry's min_stake and max_stake
stake_amount_check(sp, amount) ==
    IF amount < sp.min_stake THEN "StakeTooSmall"
    ELSE IF amount > sp.max_stake THEN "StakeTooLarge"
    ELSE "Ok"

process_stake(L, c, ep) ==
    LET sp == load_stake_pool(L, c)
        amount == c.amount
    IN
    IF ~c.signed THEN Err("MissingRequiredSignature", L, {})
    ELSE IF ~PoolOwnedByProgram(L, c) THEN Err("IllegalOwner", L, {})
    ELSE IF ~MintOwnedByToken(L, c) THEN Err("IllegalOwner", L, {})
    ELSE IF ~is_initialized(sp) THEN Err("UninitializedAccount", L, {})
    ELSE IF pool_paused(sp) THEN Err("PoolPaused", L, {})
    ELSE IF stake_amount_check(sp, amount) # "Ok"
         THEN Err(stake_amount_check(sp, amount), L, {})
    ELSE IF validator_mismatch(sp, c)
         THEN Err("InvalidStakeAccountDelegation", L, {})
    ELSE
    LET to_mint == pool_tokens_to_mint(sp, amount) IN
    IF to_mint = NULL THEN Err("MathOverflow", L, {})
    ELSE IF to_mint = 0 THEN Err("CalculationFailure", L, {})
    ELSE
    IF stake_authority_mismatch(sp, c) THEN Err("InvalidStakeAuthority", L, {})
    ELSE
    LET stake_account_pda == StakeAccountPda(c.pool_key, c.user, sp.stake_authority) IN
    IF stake_account_pda # c.stake_account THEN Err("InvalidSeeds", L, {})
    ELSE
    \* create or load the stake account
    LET fresh == stake_lamports(L, c.stake_account) = 0
        pay   == IF fresh THEN SystemTransfer(L.wallet, c.user, RENT)
                 ELSE [ok |-> TRUE, wallet |-> L.wallet]
        rec0  == IF fresh
                 THEN StakeInitialize(L.stakes[c.stake_account],
                                      sp.stake_authority, c.user)
                 ELSE L.stakes[c.stake_account]
        done0 == IF fresh THEN {"create"} ELSE {}
    IN
    IF ~pay.ok THEN Err("InsufficientFunds", L, {})
    ELSE
    \* transfer `amount` from the user into the stake account
    LET xfer == SystemTransfer(pay.wallet, c.user, amount)
        rec1 == [rec0 EXCEPT !.lamports = @ + amount]
    IN
    IF ~xfer.ok THEN Err("InsufficientFunds", L, done0)
    ELSE
    \* delegate, signed with the stake-authority seeds
    LET dele == StakeDelegate(rec1, sp.helius_validator_vote,
                              sp.stake_authority, ep)
        done1 == done0 \cup {"transfer"}
    IN
    IF ~dele.ok THEN Err("StakeProgramError", L, done1)
    ELSE
    \* mint the claim-tokens, signed with the stake-authority seeds
    LET mint == TokenMintTo(L.tokens, c.mint, c.user, sp.stake_authority, to_mint)
        done2 == done1 \cup {"delegate"}
    IN
    IF ~mint.ok THEN Err("TokenProgramError", L, done2)
    ELSE
    LET done3 == done2 \cup {"mint"}
        new_staked == checked_add(sp.total_staked, amount)
    IN
    IF new_staked = NULL THEN Err("MathOverflow", L, done3)
    ELSE
    LET new_shares == checked_add(sp.total_shares, to_mint) IN
    IF new_shares = NULL THEN Err("MathOverflow", L, done3)
    ELSE
    Ret("Ok",
        [ pool   |-> [sp EXCEPT !.total_staked = new_staked,
                                !.total_shares = new_shares],
          stakes |-> [L.stakes EXCEPT ![c.stake_account] = dele.rec],
          tokens |-> mint.tokens,
          wallet |-> xfer.wallet ],
        to_mint, 0, 0, done3 \cup {"registry"})

\* the withdrawal-request handler saving the registry before it burns the
\* tokens and deactivates the stake account
process_unstake_registry_first(L, c, ep) ==
    LET sp == L.pool
        pool_token_amount == c.amount
    IN
    IF ~c.signed THEN Err("MissingRequiredSignature", L, {})
    ELSE IF ~PoolOwnedByProgram(L, c) THEN Err("IllegalOwner", L, {})
    ELSE IF ~MintOwnedByToken(L, c) THEN Err("IllegalOwner", L, {})
    ELSE IF ~is_initialized(sp) THEN Err("UninitializedAccount", L, {})
    ELSE IF pool_paused(sp) THEN Err("PoolPaused", L, {})
    ELSE IF pool_token_amount = 0 THEN Err("StakeTooSmall", L, {})
    ELSE
    LET native == sol_to_withdraw(sp, pool_token_amount) IN
    IF native = NULL THEN Err("MathOverflow", L, {})
    ELSE
    LET new_staked == checked_sub(sp.total_staked, native) IN
    IF new_staked = NULL THEN Err("MathOverflow", L, {})
    ELSE
    LET new_shares == checked_sub(sp.total_shares, pool_token_amount) IN
    IF new_shares = NULL THEN Err("MathOverflow", L, {})
    ELSE
    LET done0 == {"registry"}
        burn == TokenBurn(L.tokens, c.mint, c.user, pool_token_amount)
    IN
    IF ~burn.ok THEN Err("TokenProgramError", L, done0)
    ELSE
    LET done1 == done0 \cup {"burn"} IN
    IF StakeAuthorityPda(c.pool_key) # sp.stake_authority
    THEN Err("InvalidStakeAuthority", L, done1)
    ELSE IF StakeAccountPda(c.pool_key, c.user, sp.stake_authority) # c.stake_account
    THEN Err("InvalidSeeds", L, done1)
    ELSE
    LET deact == IF StakeOwnedByStakeProgram(L, c.stake_account)
                 THEN StakeDeactivate(L.stakes[c.stake_account],
                                      sp.stake_authority, ep)
                 ELSE [ok |-> FALSE, rec |-> NoStake]
    IN
    IF ~deact.ok THEN Err("StakeProgramError", L, done1)
    ELSE
    Ret("Ok",
        [ pool   |-> [sp EXCEPT !.total_staked = new_staked,
                                !.total_shares = new_shares],
          stakes |-> [L.stakes EXCEPT ![c.stake_account] = deact.rec],
          tokens |-> burn.tokens,
          wallet |-> L.wallet ],
        0, native, 0, done1 \cup {"deactivate"})

process_unstake(L, c, ep) ==
    LET sp == load_stake_pool(L, c)
        pool_token_amount == c.amount
    IN
    IF ~c.signed THEN Err("MissingRequiredSignature", L, {})
    ELSE IF ~PoolOwnedByProgram(L, c) THEN Err("IllegalOwner", L, {})
    ELSE IF ~MintOwnedByToken(L, c) THEN Err("IllegalOwner", L, {})
    ELSE IF ~is_initialized(sp) THEN Err("UninitializedAccount", L, {})
    ELSE IF pool_paused(sp) THEN Err("PoolPaused", L, {})
    ELSE IF pool_token_amount = 0 THEN Err("StakeTooSmall", L, {})
    ELSE
    LET native == sol_to_withdraw(sp, pool_token_amount) IN
    IF native = NULL THEN Err("MathOverflow", L, {})
    ELSE
    \* burn, authorised by the user's own signature
    LET burn == TokenBurn(L.tokens, c.mint, c.user, pool_token_amount) IN
    IF ~burn.ok THEN Err("TokenProgramError", L, {})
    ELSE
    LET done1 == {"burn"}
        stake_authority_pda == StakeAuthorityPda(c.pool_key)
    IN
    IF stake_authority_pda # sp.stake_authority
    THEN Err("InvalidStakeAuthority", L, done1)
    ELSE
    LET expected_stake_pda == StakeAccountPda(c.pool_key, c.user, sp.stake_authority) IN
    IF expected_stake_pda # c.stake_account THEN Err("InvalidSeeds", L, done1)
    ELSE
    LET deact == IF StakeOwnedByStakeProgram(L, c.stake_account)
                 THEN StakeDeactivate(L.stakes[c.stake_account],
                                      sp.stake_authority, ep)
                 ELSE [ok |-> FALSE, rec |-> NoStake]
    IN
    IF ~deact.ok THEN Err("StakeProgramError", L, done1)
    ELSE
    LET done2 == done1 \cup {"deactivate"}
        new_staked == checked_sub(sp.total_staked, native)
    IN
    IF new_staked = NULL THEN Err("MathOverflow", L, done2)
    ELSE
    LET new_shares == checked_sub(sp.total_shares, pool_token_amount) IN
    IF new_shares = NULL THEN Err("MathOverflow", L, done2)
    ELSE
    Ret("Ok",
        [ pool   |-> [sp EXCEPT !.total_staked = new_staked,
                                !.total_shares = new_shares],
          stakes |-> [L.stakes EXCEPT ![c.stake_account] = deact.rec],
          tokens |-> burn.tokens,
          wallet |-> L.wallet ],
        0, native, 0, done2 \cup {"registry"})


\* the epoch-marker update counting calls instead of recording the epoch
process_claim_rewards_counting(L, c, ep) ==
    IF ~c.signed THEN Err("MissingRequiredSignature", L, {})
    ELSE IF ~PoolOwnedByProgram(L, c) THEN Err("IllegalOwner", L, {})
    ELSE IF ~is_initialized(L.pool) THEN Err("UninitializedAccount", L, {})
    ELSE Ret("Ok",
             [L EXCEPT !.pool.last_update_epoch = (@ + 1) % (U64_MAX + 1)],
             0, 0, 0, {"registry"})

\* the epoch-marker update that never persists the epoch
process_claim_rewards_noop(L, c, ep) ==
    IF ~c.signed THEN Err("MissingRequiredSignature", L, {})
    ELSE IF ~PoolOwnedByProgram(L, c) THEN Err("IllegalOwner", L, {})
    ELSE IF ~is_initialized(L.pool) THEN Err("UninitializedAccount", L, {})
    ELSE Ret("Ok", L, 0, 0, 0, {})

process_claim_rewards(L, c, ep) ==
    LET sp == load_stake_pool(L, c) IN
    IF ~c.signed THEN Err("MissingRequiredSignature", L, {})
    ELSE IF ~PoolOwnedByProgram(L, c) THEN Err("IllegalOwner", L, {})
    ELSE IF ~is_initialized(sp) THEN Err("UninitializedAccount", L, {})
    ELSE IF sp.last_update_epoch >= ep THEN Ret("Ok", L, 0, 0, 0, {})
    ELSE Ret("Ok", [L EXCEPT !.pool.last_update_epoch = ep], 0, 0, 0, {"registry"})

\* the cooldown check letting the deactivation epoch itself pass
cooldown_not_passed_strict(ep, deactivation_epoch) == ep < deactivation_epoch

\* process_withdraw_stake: clock.epoch <= deactivation_epoch
cooldown_not_passed(ep, deactivation_epoch) == ep <= deactivation_epoch

\* the withdrawal handler reducing total_staked by the stake it releases
process_withdraw_stake_debiting(L, c, ep) ==
    LET sp == L.pool IN
    IF ~c.signed THEN Err("MissingRequiredSignature", L, {})
    ELSE IF ~PoolOwnedByProgram(L, c) THEN Err("IllegalOwner", L, {})
    ELSE IF ~StakeOwnedByStakeProgram(L, c.stake_account) THEN Err("IllegalOwner", L, {})
    ELSE IF ~is_initialized(sp) THEN Err("UninitializedAccount", L, {})
    ELSE IF c.withdraw_authority # sp.withdraw_authority
         THEN Err("InvalidWithdrawAuthority", L, {})
    ELSE
    LET rec == L.stakes[c.stake_account] IN
    IF rec.state # "Stake" THEN Err("WrongStakeState", L, {})
    ELSE IF rec.withdrawer # sp.withdraw_authority
         THEN Err("InvalidStakeAccountAuthority", L, {})
    ELSE IF rec.deactivation_epoch = U64_MAX THEN Err("StakeNotDeactivated", L, {})
    ELSE IF cooldown_not_passed(ep, rec.deactivation_epoch)
         THEN Err("CooldownNotPassed", L, {})
    ELSE IF WithdrawAuthorityPda(c.pool_key) # sp.withdraw_authority
         THEN Err("InvalidWithdrawAuthority", L, {})
    ELSE
    LET lamports == rec.lamports
        wd == StakeWithdraw(rec, sp.withdraw_authority, lamports, ep)
    IN
    IF ~wd.ok THEN Err("StakeProgramError", L, {})
    ELSE
    Ret("Ok",
        [ L EXCEPT !.stakes[c.stake_account] = wd.rec,
                   !.wallet[c.user] = @ + lamports,
                   !.pool.total_staked =
                       IF @ < lamports - RENT THEN 0 ELSE @ - (lamports - RENT) ],
        0, 0, lamports, {"withdraw", "registry"})

process_withdraw_stake(L, c, ep) ==
    LET sp == load_stake_pool(L, c) IN
    IF ~c.signed THEN Err("MissingRequiredSignature", L, {})
    ELSE IF ~PoolOwnedByProgram(L, c) THEN Err("IllegalOwner", L, {})
    ELSE IF ~StakeOwnedByStakeProgram(L, c.stake_account) THEN Err("IllegalOwner", L, {})
    ELSE IF ~is_initialized(sp) THEN Err("UninitializedAccount", L, {})
    ELSE IF c.withdraw_authority # sp.withdraw_authority
         THEN Err("InvalidWithdrawAuthority", L, {})
    ELSE
    LET rec == L.stakes[c.stake_account] IN
    IF rec.state # "Stake" THEN Err("WrongStakeState", L, {})
    ELSE IF rec.withdrawer # sp.withdraw_authority
         THEN Err("InvalidStakeAccountAuthority", L, {})
    ELSE IF rec.deactivation_epoch = U64_MAX THEN Err("StakeNotDeactivated", L, {})
    ELSE IF cooldown_not_passed(ep, rec.deactivation_epoch)
         THEN Err("CooldownNotPassed", L, {})
    ELSE IF WithdrawAuthorityPda(c.pool_key) # sp.withdraw_authority
         THEN Err("InvalidWithdrawAuthority", L, {})
    ELSE
    \* withdraw the full balance, signed with the withdraw-authority seeds
    LET lamports == rec.lamports
        wd == StakeWithdraw(rec, sp.withdraw_authority, lamports, ep)
    IN
    IF ~wd.ok THEN Err("StakeProgramError", L, {})
    ELSE
    Ret("Ok",
        [ L EXCEPT !.stakes[c.stake_account] = wd.rec,
                   !.wallet[c.user] = @ + lamports ],
        0, 0, lamports, {"withdraw"})

\* account creation that never finds the account in use
account_in_use_never(L) == FALSE

\* create_or_allocate_account_raw on the pool account: system_instruction::
\* allocate fails on an account that already holds data
account_in_use(L) == L.pool.version > 0

\* The serialized registry (Borsh, state.rs field order): each field with its
\* size in bytes; a String is a 4-byte length followed by its bytes.
StakePoolLayout(name_len) ==
    << <<"version", 1>>, <<"authority", 32>>, <<"stake_authority", 32>>,
       <<"withdraw_authority", 32>>, <<"name", 4 + name_len>>,
       <<"fee_percentage", 1>>, <<"total_staked", 8>>, <<"total_shares", 8>>,
       <<"mint", 32>>, <<"reserve", 32>>, <<"helius_validator_vote", 32>>,
       <<"manager_fee_account", 32>>, <<"treasury_fee_account", 32>>,
       <<"paused", 1>>, <<"last_update_epoch", 8>>, <<"min_stake", 8>>,
       <<"max_stake", 8>>, <<"stake_authority_bump_seed", 1>>,
       <<"withdraw_authority_bump_seed", 1>>, <<"reserved", 62>> >>

\* byte offset of the i-th field (i = Len + 1: the size of the record)
RECURSIVE FieldOffset(_, _)
FieldOffset(layout, i) ==
    IF i = 1 THEN 0 ELSE FieldOffset(layout, i - 1) + layout[i - 1][2]

\* the mint offset computed without the length prefix of the name
mint_offset_no_prefix(name_len) == 1 + (3 * 32) + name_len + 1 + (2 * 8)

\* the mint offset computed for a name of eight bytes
mint_offset_fixed_name(name_len) == 1 + (3 * 32) + 4 + 8 + 1 + (2 * 8)

\* process_initialize: mint_offset
mint_offset(name_len) == 1 + (3 * 32) + 4 + name_len + 1 + (2 * 8)

\* account_data[offset .. offset + 32] = key.  A field that starts at the
\* offset and is 32 bytes long takes the key; any other address field the
\* range overlaps no longer holds an address the program wrote.
write_pubkey_at(sp, name_len, offset, key) ==
    LET layout == StakePoolLayout(name_len)
        Index(f) == CHOOSE i \in DOMAIN layout : layout[i][1] = f
        exact(f) == /\ FieldOffset(layout, Index(f)) = offset
                    /\ layout[Index(f)][2] = 32
        hit(f) == /\ FieldOffset(layout, Index(f)) < offset + 32
                  /\ FieldOffset(layout, Index(f) + 1) > offset
        w(f, cur) == IF exact(f) THEN key ELSE IF hit(f) THEN BOGUS ELSE cur
    IN [sp EXCEPT !.authority = w("authority", @),
                  !.stake_authority = w("stake_authority", @),
                  !.withdraw_authority = w("withdraw_authority", @),
                  !.mint = w("mint", @),
                  !.helius_validator_vote = w("helius_validator_vote", @)]

\* initial_stake_pool.try_to_vec(): the serialized record as a sequence of
\* bytes, each byte named by the field it belongs to and its position in it
try_to_vec(name_len) ==
    LET layout == StakePoolLayout(name_len)
        size == FieldOffset(layout, Len(layout) + 1)
        IndexAt(b) == CHOOSE i \in DOMAIN layout :
                          /\ FieldOffset(layout, i) <= b
                          /\ b < FieldOffset(layout, i + 1)
    IN [k \in 1 .. size |->
           <<layout[IndexAt(k - 1)][1], k - 1 - FieldOffset(layout, IndexAt(k - 1))>>]

\* Pubkey::to_bytes
to_bytes(key) == [j \in 1 .. 32 |-> <<key, j - 1>>]

\* account_data[offset .. offset + 32].copy_from_slice(bytes), done only
\* when account_data.len() >= offset + 32
copy_from_slice(account_data, offset, bytes) ==
    IF Len(account_data) >= offset + 32
    THEN [k \in 1 .. Len(account_data) |->
             IF offset < k /\ k <= offset + 32 THEN bytes[k - offset]
             ELSE account_data[k]]
    ELSE account_data

\* the bytes of one field as a later try_from_slice reads them
read_field(account_data, name_len, f) ==
    LET layout == StakePoolLayout(name_len)
        i == CHOOSE j \in DOMAIN layout : layout[j][1] = f
    IN SubSeq(account_data, FieldOffset(layout, i) + 1, FieldOffset(layout, i + 1))

\* the name check rejecting the two limits themselves
invalid_pool_name_exclusive(name_len) == name_len <= 3 \/ name_len >= 32

\* process_initialize: name.len() < 3 || name.len() > 32
invalid_pool_name(name_len) == name_len < 3 \/ name_len > 32

process_initialize(L, c, ep) ==
    IF ~c.signed THEN Err("MissingRequiredSignature", L, {})
    ELSE IF c.fee > 100 THEN Err("InvalidFeePercentage", L, {})
    ELSE IF invalid_pool_name(c.name_len) THEN Err("InvalidPoolName", L, {})
    ELSE
    LET expected_stake_pool_pda == PoolPda(c.user) IN
    IF expected_stake_pool_pda # c.pool_key THEN Err("InvalidSeeds", L, {})
    ELSE
    LET stake_authority == StakeAuthorityPda(expected_stake_pool_pda)
        withdraw_authority == WithdrawAuthorityPda(expected_stake_pool_pda)
        initial_stake_pool ==
            [ version |-> 1, authority |-> c.user,
              stake_authority |-> stake_authority,
              withdraw_authority |-> withdraw_authority,
              name_len |-> c.name_len, fee_percentage |-> c.fee,
              total_staked |-> 0, total_shares |-> 0, mint |-> NONE,
              helius_validator_vote |-> c.validator, paused |-> FALSE,
              last_update_epoch |-> ep,
              min_stake |-> MIN_STAKE, max_stake |-> MAX_STAKE ]
    IN
    \* create_or_allocate_account_raw: allocate fails on an account in use
    IF account_in_use(L) THEN Err("SystemProgramError", L, {})
    ELSE
    LET done1 == {"create_pool", "write_pool"} IN
    IF MintPda(c.pool_key) # c.mint THEN Err("InvalidSeeds", L, done1)
    ELSE
    \* patch the mint address into the record already written
    LET offset == mint_offset(c.name_len)
        layout == StakePoolLayout(c.name_len)
    IN
    IF FieldOffset(layout, Len(layout) + 1) < offset + 32
    THEN Err("AccountDataTooSmall", L, done1 \cup {"create_mint"})
    ELSE
    Ret("Ok",
        [L EXCEPT !.pool = write_pubkey_at(initial_stake_pool, c.name_len,
                                           offset, c.mint)],
        0, 0, 0, done1 \cup {"create_mint", "patch_mint", "initialize_mint"})

(***************************************************************************)
(* Calls offered to the program: for every handler the well-formed call of *)
(* each user and amount, and the same call with one account or input       *)
(* replaced by a forged or invalid one (or its signature missing).         *)
(***************************************************************************)
Call(op, user, amount) ==
    [ op |-> op, user |-> user, signed |-> TRUE, amount |-> amount,
      pool_key |-> POOL, mint |-> MintPda(POOL), stake_account |-> UserStake(user),
      stake_authority |-> StakeAuthorityPda(POOL),
      withdraw_authority |-> WithdrawAuthorityPda(POOL),
      validator |-> VALIDATOR, name_len |-> 0, fee |-> 0 ]

Other(u) == CHOOSE v \in Users : v # u

Unsigned(c) == [c EXCEPT !.signed = FALSE]
ForgedMint(c) == [c EXCEPT !.mint = FAKE_MINT]
ForgedStakeAccount(c) == [c EXCEPT !.stake_account = UserStake(Other(c.user))]
BogusStakeAccount(c) == [c EXCEPT !.stake_account = BOGUS]
ExternalStakeAccount(c) == [c EXCEPT !.stake_account = EXTERNAL_STAKE]
ForgedStakeAuthority(c) == [c EXCEPT !.stake_authority = BOGUS]
ForgedWithdrawAuthority(c) == [c EXCEPT !.withdraw_authority = BOGUS]
WrongValidator(c) == [c EXCEPT !.validator = OTHER_VALIDATOR]

ForeignPool(c) == [c EXCEPT !.pool_key = BOGUS]
UninitializedPool(c) == [c EXCEPT !.pool_key = ZEROED_POOL]

StakeAmounts == {MIN_STAKE - 1, MIN_STAKE, MAX_STAKE, MAX_STAKE + 1}
UnstakeAmounts == {0, MIN_STAKE, MIN_STAKE + 1, MAX_STAKE}

StakeCalls ==
    LET good == {Call("Stake", u, a) : u \in Users, a \in StakeAmounts}
        base == {Call("Stake", u, MIN_STAKE) : u \in Users}
    IN good \cup UNION { { Unsigned(c), ForgedMint(c), ForgedStakeAccount(c),
                           BogusStakeAccount(c), ForgedStakeAuthority(c),
                           WrongValidator(c) } : c \in base }

UnstakeCalls ==
    LET good == {Call("Unstake", u, a) : u \in Users, a \in UnstakeAmounts}
        base == {Call("Unstake", u, MIN_STAKE) : u \in Users}
    IN good \cup UNION { { Unsigned(c), ForgedMint(c), ForgedStakeAccount(c) }
                         : c \in base }

ClaimRewardsCalls ==
    LET good == {Call("ClaimRewards", u, 0) : u \in Users} IN
    good \cup {Unsigned(c) : c \in good}

WithdrawStakeCalls ==
    LET good == {Call("WithdrawStake", u, 0) : u \in Users} IN
    good \cup UNION { { Unsigned(c), ForgedStakeAccount(c), BogusStakeAccount(c),
                        ExternalStakeAccount(c), ForgedWithdrawAuthority(c) }
                      : c \in good }

InitializeCalls ==
    LET good == [Call("Initialize", Creator, 0) EXCEPT !.name_len = 8, !.fee = 5] IN
    { good,
      [good EXCEPT !.signed = FALSE],
      [good EXCEPT !.fee = 101],
      [good EXCEPT !.name_len = 2],
      [good EXCEPT !.name_len = 3],
      [good EXCEPT !.name_len = 32],
      [good EXCEPT !.name_len = 33],
      [good EXCEPT !.user = "u1"],
      [good EXCEPT !.pool_key = BOGUS],
      [good EXCEPT !.mint = FAKE_MINT] }

(***************************************************************************)
(* The state machine.                                                      *)
(***************************************************************************)
Ledger == [pool |-> pool, stakes |-> stakes, tokens |-> tokens, wallet |-> wallet]

NoCall == [Call("None", NONE, 0) EXCEPT !.signed = FALSE]

Init ==
    /\ pool = DefaultStakePool
    /\ stakes = [a \in StakeAddrs |-> NoStake]
    /\ tokens = [u \in Users |-> 0]
    /\ wallet = [u \in Users |-> WALLET]
    /\ epoch = 0
    /\ last = [ call |-> NoCall, epoch |-> 0, minted |-> 0, native |-> 0,
                moved |-> 0 ]

\* The host runs the handler and commits its ledger only on success: a call
\* that returns an error is discarded whole and leaves every account as it
\* was.  `last` is the last call that was committed.
Process(c, r) ==
    IF r.result = "Ok"
    THEN /\ pool' = r.ledger.pool
         /\ stakes' = r.ledger.stakes
         /\ tokens' = r.ledger.tokens
         /\ wallet' = r.ledger.wallet
         /\ epoch' = epoch
         /\ last' = [ call |-> c, epoch |-> epoch, minted |-> r.minted,
                      native |-> r.native, moved |-> r.moved ]
    ELSE UNCHANGED vars

Initialize == \E c \in InitializeCalls : Process(c, process_initialize(Ledger, c, epoch))

Stake == \E c \in StakeCalls : Process(c, process_stake(Ledger, c, epoch))

Unstake == \E c \in UnstakeCalls : Process(c, process_unstake(Ledger, c, epoch))

ClaimRewards ==
    \E c \in ClaimRewardsCalls : Process(c, process_claim_rewards(Ledger, c, epoch))

WithdrawStake ==
    \E c \in WithdrawStakeCalls : Process(c, process_withdraw_stake(Ledger, c, epoch))

\* the external clock reaches the next epoch
Tick ==
    /\ epoch < MaxEpoch
    /\ epoch' = epoch + 1
    /\ UNCHANGED <<pool, stakes, tokens, wallet, last>>

Next == Initialize \/ Stake \/ Unstake \/ ClaimRewards \/ WithdrawStake \/ Tick

Spec == Init /\ [][Next]_vars


(***************************************************************************)
(* Ratio arithmetic on arbitrary registry totals: the registry is the one  *)
(* Initialize leaves, with total_staked and total_shares drawn from the    *)
(* whole u64 range, and the deposit and withdrawal-request handlers act on *)
(* it (one user, well-formed calls).                                       *)
(***************************************************************************)
InitializedPool ==
    process_initialize(
        [ pool |-> DefaultStakePool, stakes |-> [a \in StakeAddrs |-> NoStake],
          tokens |-> [u \in Users |-> 0], wallet |-> [u \in Users |-> WALLET] ],
        [Call("Initialize", Creator, 0) EXCEPT !.name_len = 8, !.fee = 5],
        0).ledger.pool

RatioInit ==
    /\ pool \in { [InitializedPool EXCEPT !.total_staked = a, !.total_shares = b]
                  : a \in 0 .. U64_MAX, b \in 0 .. U64_MAX }
    /\ stakes = [a \in StakeAddrs |-> NoStake]
    /\ tokens = [u \in Users |-> 0]
    /\ wallet = [u \in Users |-> WALLET]
    /\ epoch = 0
    /\ last = [ call |-> NoCall, epoch |-> 0, minted |-> 0, native |-> 0,
                moved |-> 0 ]

RatioStakeCalls == {Call("Stake", "u1", a) : a \in StakeAmounts}
RatioUnstakeCalls == {Call("Unstake", "u1", a) : a \in 0 .. U64_MAX}

RatioStake == \E c \in RatioStakeCalls : Process(c, process_stake(Ledger, c, epoch))

RatioUnstake == \E c \in RatioUnstakeCalls : Process(c, process_unstake(Ledger, c, epoch))

RatioNext == RatioStake \/ RatioUnstake

SpecRatio == RatioInit /\ [][RatioNext]_vars


(***************************************************************************)
(* The dispatcher.  A payload is a sequence of words; every fixed-width     *)
(* field of the Borsh encoding (u8 tag, u8, u32 length, u64, Pubkey) is one *)
(* word, a String is its length followed by one word per byte.  unpack is   *)
(* StakePoolInstruction::try_from_slice: it reads the tag, then the fields  *)
(* of that variant, and fails unless the payload ends exactly there.        *)
(***************************************************************************)
Ins(op, name_len, fee, validator, amount) ==
    [ op |-> op, name_len |-> name_len, fee |-> fee, validator |-> validator,
      amount |-> amount ]

InvalidInstructionData == Ins("InvalidInstructionData", 0, 0, NONE, 0)

\* the keys a payload can carry, by their encoding
KeyTable == <<VALIDATOR, OTHER_VALIDATOR>>
KeyOf(w) == IF w \in DOMAIN KeyTable THEN KeyTable[w] ELSE BOGUS
WordOf(key) == CHOOSE w \in DOMAIN KeyTable : KeyTable[w] = key

\* BorshSerialize of StakePoolInstruction
pack(ins) ==
    CASE ins.op = "Initialize" ->
             <<0, ins.name_len>> \o [i \in 1 .. ins.name_len |-> 0]
                 \o <<ins.fee, WordOf(ins.validator)>>
      [] ins.op = "Stake" -> <<1, ins.amount>>
      [] ins.op = "Unstake" -> <<2, ins.amount>>
      [] ins.op = "ClaimRewards" -> <<3>>
      [] ins.op = "WithdrawStake" -> <<4>>

\* decoding that stops at the end of the variant and ignores what follows
unpack_lenient(data) ==
    IF Len(data) = 0 THEN InvalidInstructionData
    ELSE LET tag == data[1] IN
    IF tag = 0
    THEN IF Len(data) < 2 \/ Len(data) < 4 + data[2] THEN InvalidInstructionData
         ELSE Ins("Initialize", data[2], data[3 + data[2]],
                  KeyOf(data[4 + data[2]]), 0)
    ELSE IF tag = 1 /\ Len(data) >= 2 THEN Ins("Stake", 0, 0, NONE, data[2])
    ELSE IF tag = 2 /\ Len(data) >= 2 THEN Ins("Unstake", 0, 0, NONE, data[2])
    ELSE IF tag = 3 THEN Ins("ClaimRewards", 0, 0, NONE, 0)
    ELSE IF tag = 4 THEN Ins("WithdrawStake", 0, 0, NONE, 0)
    ELSE InvalidInstructionData

\* StakePoolInstruction::try_from_slice
unpack(data) ==
    IF Len(data) = 0 THEN InvalidInstructionData
    ELSE LET tag == data[1] IN
    IF tag = 0
    THEN IF Len(data) < 2 \/ Len(data) # 4 + data[2] THEN InvalidInstructionData
         ELSE Ins("Initialize", data[2], data[3 + data[2]],
                  KeyOf(data[4 + data[2]]), 0)
    ELSE IF tag = 1 /\ Len(data) = 2 THEN Ins("Stake", 0, 0, NONE, data[2])
    ELSE IF tag = 2 /\ Len(data) = 2 THEN Ins("Unstake", 0, 0, NONE, data[2])
    ELSE IF tag = 3 /\ Len(data) = 1 THEN Ins("ClaimRewards", 0, 0, NONE, 0)
    ELSE IF tag = 4 /\ Len(data) = 1 THEN Ins("WithdrawStake", 0, 0, NONE, 0)
    ELSE InvalidInstructionData

\* the call a handler sees: the accounts passed and the decoded arguments
CallOf(ins, accounts) ==
    IF ins.op = "Initialize"
    THEN [accounts EXCEPT !.op = ins.op, !.name_len = ins.name_len,
                          !.fee = ins.fee, !.validator = ins.validator]
    ELSE [accounts EXCEPT !.op = ins.op, !.amount = ins.amount]

\* Processor::process
process(L, data, accounts, ep) ==
    LET instruction == unpack(data)
        c == CallOf(instruction, accounts)
    IN
    IF instruction = InvalidInstructionData
    THEN Err("InvalidInstructionData", L, {})
    ELSE CASE instruction.op = "Initialize" -> process_initialize(L, c, ep)
           [] instruction.op = "Stake" -> process_stake(L, c, ep)
           [] instruction.op = "Unstake" -> process_unstake(L, c, ep)
           [] instruction.op = "ClaimRewards" -> process_claim_rewards(L, c, ep)
           [] instruction.op = "WithdrawStake" -> process_withdraw_stake(L, c, ep)

Instructions ==
    {Ins("Initialize", n, 5, VALIDATOR, 0) : n \in {2, 3}}
    \cup {Ins("Stake", 0, 0, NONE, a) : a \in StakeAmounts}
    \cup {Ins("Unstake", 0, 0, NONE, a) : a \in UnstakeAmounts}
    \cup {Ins("ClaimRewards", 0, 0, NONE, 0), Ins("WithdrawStake", 0, 0, NONE, 0)}

WellFormedPayloads == {pack(i) : i \in Instructions}

\* payloads no instruction encodes to: empty, cut short by one word, one word
\* too long, an unknown tag
MalformedPayloads ==
    {<<>>}
    \cup {SubSeq(p, 1, Len(p) - 1) : p \in WellFormedPayloads}
    \cup {p \o <<0>> : p \in WellFormedPayloads}
    \cup {<<5>> \o Tail(p) : p \in WellFormedPayloads}

Payloads == WellFormedPayloads \cup MalformedPayloads

\* the account lists passed: the well-formed accounts of the creator or a user
AccountLists == {Call("", u, 0) : u \in Users \cup {Creator}}

\* the creator only sets the pool up; deposits and withdrawals are the users'
Offered(data, accounts) ==
    accounts.user = Creator => unpack(data).op \in {"Initialize", "InvalidInstructionData"}

Dispatch ==
    \E data \in Payloads, accounts \in AccountLists :
        /\ Offered(data, accounts)
        /\ Process(CallOf(unpack(data), accounts),
                   process(Ledger, data, accounts, epoch))

DispatchNext == Dispatch \/ Tick

SpecDispatch == Init /\ [][DispatchNext]_vars


(***************************************************************************)
(* Withdrawal from a stake account created outside the program.  The       *)
(* withdrawal handler takes the stake account as passed, so any account    *)
(* owned by the stake program can be named.  The registry is the one       *)
(* Initialize leaves; the external account has been initialized by its     *)
(* owner with either the owner or the pool's withdraw authority as         *)
(* withdrawer and is either undelegated or delegated at epoch 0; its owner *)
(* can deactivate it, the clock advances, and WithdrawStake is called.     *)
(***************************************************************************)
ExternalLamports == {RENT + 1, RENT + 2}

ExternalRecords ==
    LET initialized ==
            { [StakeInitialize(NoStake, EXTERNAL_OWNER, w) EXCEPT !.lamports = l]
              : w \in {WithdrawAuthorityPda(POOL), EXTERNAL_OWNER},
                l \in ExternalLamports }
    IN initialized
       \cup { StakeDelegate(r, VALIDATOR, EXTERNAL_OWNER, 0).rec : r \in initialized }

WithdrawInit ==
    /\ pool = InitializedPool
    /\ \E r \in ExternalRecords :
           stakes = [a \in StakeAddrs |-> IF a = EXTERNAL_STAKE THEN r ELSE NoStake]
    /\ tokens = [u \in Users |-> 0]
    /\ wallet = [u \in Users |-> WALLET]
    /\ epoch = 0
    /\ last = [ call |-> NoCall, epoch |-> 0, minted |-> 0, native |-> 0,
                moved |-> 0 ]

\* the owner deactivates the external account (stake program, signed by its
\* staker)
ExternalDeactivate ==
    LET d == StakeDeactivate(stakes[EXTERNAL_STAKE], EXTERNAL_OWNER, epoch) IN
    /\ d.ok
    /\ stakes' = [stakes EXCEPT ![EXTERNAL_STAKE] = d.rec]
    /\ UNCHANGED <<pool, tokens, wallet, epoch, last>>

WithdrawNext == WithdrawStake \/ ClaimRewards \/ ExternalDeactivate \/ Tick

SpecWithdraw == WithdrawInit /\ [][WithdrawNext]_vars


(***************************************************************************)
(* The handlers on a paused registry.  No instruction of the program sets  *)
(* the paused flag, so the registry here is the one Initialize leaves with *)
(* the flag set in its data; the stake account is one created outside the *)
(* program, as in SpecWithdraw, so that a withdrawal can go through.       *)
(***************************************************************************)
PausedInit ==
    /\ pool = [InitializedPool EXCEPT !.paused = TRUE]
    /\ \E r \in ExternalRecords :
           stakes = [a \in StakeAddrs |-> IF a = EXTERNAL_STAKE THEN r ELSE NoStake]
    /\ tokens = [u \in Users |-> 0]
    /\ wallet = [u \in Users |-> WALLET]
    /\ epoch = 0
    /\ last = [ call |-> NoCall, epoch |-> 0, minted |-> 0, native |-> 0,
                moved |-> 0 ]

PausedNext ==
    Stake \/ Unstake \/ WithdrawStake \/ ClaimRewards \/ ExternalDeactivate \/ Tick

SpecPaused == PausedInit /\ [][PausedNext]_vars


(***************************************************************************)
(* All five handlers next to a stake account created outside the program   *)
(* with the pool's withdraw authority as withdrawer (an address anyone can  *)
(* derive before the pool exists), so that every handler, WithdrawStake     *)
(* included, has calls that are committed.  One user stakes and unstakes.   *)
(***************************************************************************)
FrameInit ==
    /\ pool = DefaultStakePool
    /\ stakes = [a \in StakeAddrs |->
                   IF a = EXTERNAL_STAKE
                   THEN StakeDelegate(
                            [StakeInitialize(NoStake, EXTERNAL_OWNER,
                                             WithdrawAuthorityPda(POOL))
                                EXCEPT !.lamports = RENT + 1],
                            VALIDATOR, EXTERNAL_OWNER, 0).rec
                   ELSE NoStake]
    /\ tokens = [u \in Users |-> 0]
    /\ wallet = [u \in Users |-> WALLET]
    /\ epoch = 0
    /\ last = [ call |-> NoCall, epoch |-> 0, minted |-> 0, native |-> 0,
                moved |-> 0 ]

FrameStake ==
    \E c \in {d \in StakeCalls : d.user = "u1"} :
        Process(c, process_stake(Ledger, c, epoch))

FrameUnstake ==
    \E c \in {d \in UnstakeCalls : d.user = "u1"} :
        Process(c, process_unstake(Ledger, c, epoch))

FrameNext ==
    \/ Initialize \/ FrameStake \/ FrameUnstake \/ ClaimRewards
    \/ WithdrawStake \/ ExternalDeactivate \/ Tick

SpecFrame == FrameInit /\ [][FrameNext]_vars


(***************************************************************************)
(* Initialize over every name length around the accepted range and the     *)
(* fee values at and between the limits, followed by epoch updates.        *)
(***************************************************************************)
NameLengths == 2 .. 33
Fees == {0, 5, 100}

LayoutInitializeCalls ==
    { [Call("Initialize", Creator, 0) EXCEPT !.name_len = n, !.fee = f]
      : n \in NameLengths, f \in Fees }

LayoutInitialize ==
    \E c \in LayoutInitializeCalls : Process(c, process_initialize(Ledger, c, epoch))

LayoutNext == LayoutInitialize \/ ClaimRewards \/ Tick

SpecLayout == Init /\ [][LayoutNext]_vars


(***************************************************************************)
(* security.rs: the stake-concentration check.  A validator list is the    *)
(* sequence of its validators' active_stake_lamports; validator_index is   *)
(* the zero-based index the caller passes.  The check is a pure function;  *)
(* the specification draws its inputs and records the arguments and the    *)
(* outcome of each evaluation in `last`.  "panic" is the program aborting. *)
(***************************************************************************)
MAX_VALIDATOR_STAKE_PERCENTAGE == 10

MaxValidators == 2

RECURSIVE SeqSum(_)
SeqSum(s) == IF s = <<>> THEN 0 ELSE Head(s) + SeqSum(Tail(s))

\* validator_list.validators.iter().map(|v| v.active_stake_lamports).sum():
\* u64 addition with `+`, which on overflow aborts in a build with overflow
\* checks and wraps in a build without them
PANIC == -2

iter_sum(validators) ==
    IF SeqSum(validators) <= U64_MAX
    THEN {SeqSum(validators)}
    ELSE {PANIC, SeqSum(validators) % (U64_MAX + 1)}

\* the outcomes verify_validator_stake_limit can produce on its arguments
verify_validator_stake_limit(validators, validator_index, amount) ==
    { IF total_stake = PANIC THEN "panic"
      \* &validator_list.validators[validator_index]
      ELSE IF validator_index >= Len(validators) THEN "panic"
      ELSE
      LET new_validator_stake == checked_add(validators[validator_index + 1], amount) IN
      IF new_validator_stake = NULL THEN "CalculationFailure"
      ELSE
      LET product == checked_mul(total_stake, MAX_VALIDATOR_STAKE_PERCENTAGE) IN
      IF product = NULL THEN "CalculationFailure"
      ELSE
      LET max_allowed == checked_div(product, 100) IN
      IF max_allowed = NULL THEN "CalculationFailure"
      ELSE IF new_validator_stake > max_allowed THEN "ValidatorStakeLimitExceeded"
      ELSE "Ok"
      : total_stake \in iter_sum(validators) }

ValidatorLists ==
    UNION { [1 .. n -> 0 .. U64_MAX] : n \in 0 .. MaxValidators }

VerifyValidatorStakeLimit ==
    \E validators \in ValidatorLists, validator_index \in 0 .. MaxValidators,
       amount \in 0 .. U64_MAX :
        \E outcome \in verify_validator_stake_limit(validators, validator_index, amount) :
            /\ last' = [ call |-> [ op |-> "VerifyValidatorStakeLimit",
                                    validators |-> validators,
                                    validator_index |-> validator_index,
                                    amount |-> amount ],
                         epoch |-> epoch, minted |-> 0, native |-> 0, moved |-> 0,
                         result |-> outcome ]
            /\ UNCHANGED <<pool, stakes, tokens, wallet, epoch>>

SpecLimit == Init /\ [][VerifyValidatorStakeLimit]_vars


(***************************************************************************)
(* Properties.  A property about a call that is rejected is stated over    *)
(* the handler's result in every reachable state (a rejected call leaves   *)
(* no trace in the ledger); a property about a committed call is stated    *)
(* over `last` and the ledger it left.                                     *)
(***************************************************************************)
WellFormedStake(c) == c \in {Call("Stake", u, a) : u \in Users, a \in StakeAmounts}

\* the stake record of u has been delegated by Stake and deactivated by
\* Unstake, and the cooldown epoch has elapsed
Withdrawable(u) ==
    /\ stakes[UserStake(u)].state = "Stake"
    /\ stakes[UserStake(u)].staker = pool.stake_authority
    /\ stakes[UserStake(u)].deactivation_epoch # U64_MAX
    /\ epoch > stakes[UserStake(u)].deactivation_epoch

\* C1: WithdrawStake by user U on U's own stake record (created by Stake,
\* deactivated by Unstake), at an epoch after the deactivation epoch, succeeds
\* and transfers the record's entire balance to U.
C1_WithdrawAfterCooldownSucceeds ==
    \A u \in Users :
        LET rec == stakes[UserStake(u)]
            r == process_withdraw_stake(Ledger, Call("WithdrawStake", u, 0), epoch)
        IN Withdrawable(u) =>
               /\ r.result = "Ok"
               /\ r.moved = rec.lamports
               /\ r.ledger.wallet[u] = wallet[u] + rec.lamports
               /\ r.ledger.stakes[UserStake(u)].lamports = 0

\* C2: every stake record created by Stake has its authorized staker and its
\* authorized withdrawer set to controller-derived addresses.
ControllerDerived == {StakeAuthorityPda(POOL), WithdrawAuthorityPda(POOL)}

C2_AuthoritiesControllerDerived ==
    \A a \in StakeAddrs :
        stakes[a].state # "Uninitialized" =>
            /\ stakes[a].staker \in ControllerDerived
            /\ stakes[a].withdrawer \in ControllerDerived

\* C3: Stake and Unstake reject every call whose pool-mint account is not the
\* registry's derived mint: no such call is ever committed, so no token is
\* minted or burned and no registry total changes under a foreign mint.
C3_ForeignMintRejected ==
    last.call.op \in {"Stake", "Unstake"} => last.call.mint = MintPda(POOL)

\* C4: a WithdrawStake call signed by user B that supplies the stake record
\* derived for another user A is rejected with the address-mismatch error
\* (InvalidSeeds) and moves no funds.
C4_WithdrawOnlyOwnRecord ==
    \A c \in WithdrawStakeCalls :
        LET r == process_withdraw_stake(Ledger, c, epoch) IN
        ( /\ c.signed
          /\ c.stake_account \in StakeAddrs
          /\ c.stake_account # UserStake(c.user)
          /\ c.withdraw_authority = pool.withdraw_authority
          /\ StakeOwnedByStakeProgram(Ledger, c.stake_account) )
        => (r.result = "InvalidSeeds" /\ r.moved = 0 /\ r.ledger = Ledger)

\* C5: Stake with a stake-authority account or a stake-record account other
\* than the derived one, and WithdrawStake with a withdraw-authority account
\* other than the registry's, fail with the address/authority-mismatch error
\* before any effect, leaving registry, token supply and stake records as
\* they were.
Rejected(r, code) == r.result = code /\ r.done = {} /\ r.ledger = Ledger

C5_ForgedAuthorityRejected ==
    is_initialized(pool) =>
        /\ \A c \in StakeCalls :
               LET r == process_stake(Ledger, c, epoch) IN
               /\ (c.signed /\ c.stake_authority # StakeAuthorityPda(POOL))
                      => Rejected(r, "InvalidStakeAuthority")
               /\ (c.signed /\ c.stake_account # UserStake(c.user))
                      => Rejected(r, "InvalidSeeds")
        /\ \A c \in WithdrawStakeCalls :
               LET r == process_withdraw_stake(Ledger, c, epoch) IN
               ( /\ c.signed
                 /\ StakeOwnedByStakeProgram(Ledger, c.stake_account)
                 /\ c.withdraw_authority # WithdrawAuthorityPda(POOL) )
               => Rejected(r, "InvalidWithdrawAuthority")

\* reached: an initialized pool with an existing stake record, where each of
\* the three forged calls is rejected with its mismatch error
C5_Witness ==
    /\ is_initialized(pool)
    /\ \E u \in Users :
           /\ StakeOwnedByStakeProgram(Ledger, UserStake(u))
           /\ process_stake(Ledger, ForgedStakeAuthority(Call("Stake", u, MIN_STAKE)),
                            epoch).result = "InvalidStakeAuthority"
           /\ process_stake(Ledger, ForgedStakeAccount(Call("Stake", u, MIN_STAKE)),
                            epoch).result = "InvalidSeeds"
           /\ process_withdraw_stake(Ledger,
                  ForgedWithdrawAuthority(Call("WithdrawStake", u, 0)),
                  epoch).result = "InvalidWithdrawAuthority"

\* C6: in every reachable state the registry's total_shares equals the
\* outstanding supply (minted minus burned) of the pool's own claim-token.
C6_SharesEqualSupply == pool.total_shares = Supply(tokens)


\* C7: total_staked and total_shares never wrap and are never clamped: a Stake
\* that reaches the registry update with a sum above the u64 maximum, and an
\* Unstake that reaches it with a difference below zero, fail with
\* MathOverflow and leave both totals as they were; a committed call leaves
\* exactly the sum or the difference.
C7_NoWrapNoClamp ==
    /\ pool.total_staked \in 0 .. U64_MAX
    /\ pool.total_shares \in 0 .. U64_MAX
    /\ \A c \in StakeCalls :
           LET r == process_stake(Ledger, c, epoch)
               t == pool_tokens_to_mint(pool, c.amount)
           IN /\ ( /\ "mint" \in r.done
                   /\ \/ pool.total_staked + c.amount > U64_MAX
                      \/ pool.total_shares + t > U64_MAX )
                  => (r.result = "MathOverflow" /\ r.ledger.pool = pool)
              /\ r.result = "Ok" =>
                     /\ r.ledger.pool.total_staked = pool.total_staked + c.amount
                     /\ r.ledger.pool.total_shares = pool.total_shares + r.minted
    /\ \A c \in UnstakeCalls :
           LET r == process_unstake(Ledger, c, epoch)
               n == sol_to_withdraw(pool, c.amount)
           IN /\ ( /\ "deactivate" \in r.done
                   /\ \/ n > pool.total_staked
                      \/ c.amount > pool.total_shares )
                  => (r.result = "MathOverflow" /\ r.ledger.pool = pool)
              /\ r.result = "Ok" =>
                     /\ r.ledger.pool.total_staked = pool.total_staked - r.native
                     /\ r.ledger.pool.total_shares = pool.total_shares - c.amount

\* reached: a state in which a Stake gets as far as the registry update and
\* its checked addition exceeds the u64 maximum
C7_Witness ==
    \E c \in StakeCalls :
        LET r == process_stake(Ledger, c, epoch) IN
        /\ "mint" \in r.done
        /\ pool.total_staked + c.amount > U64_MAX
        /\ r.result = "MathOverflow"

\* reached: a state in which an Unstake gets as far as the registry update
\* and its checked subtraction goes below zero
C7_WitnessUnderflow ==
    \E c \in UnstakeCalls :
        LET r == process_unstake(Ledger, c, epoch) IN
        /\ "deactivate" \in r.done
        /\ c.amount > pool.total_shares
        /\ r.result = "MathOverflow"

\* C8: ratio symmetry.  When the last committed call is a Stake(amount), an
\* Unstake of exactly the tokens it minted, made before any other call is
\* committed, computes native_amount = amount.
UnstakeOfLastMint ==
    [Call("Unstake", last.call.user, last.minted) EXCEPT !.mint = last.call.mint]

C8_RatioSymmetry ==
    last.call.op = "Stake" =>
        LET r == process_unstake(Ledger, UnstakeOfLastMint, epoch) IN
        /\ sol_to_withdraw(pool, last.minted) = last.call.amount
        /\ r.result = "Ok" => r.native = last.call.amount

\* reached: a Stake committed on a pool that already held stake, whose
\* minted tokens are then unstaked successfully for the amount staked
C8_Witness ==
    /\ last.call.op = "Stake"
    /\ pool.total_staked > last.call.amount
    /\ LET r == process_unstake(Ledger, UnstakeOfLastMint, epoch) IN
       r.result = "Ok" /\ r.native = last.call.amount

\* C9: bootstrap rule.  Whenever total_shares is 0, a Stake(amount) within the
\* bounds computes exactly `amount` tokens (never the zero-token failure), and
\* a committed one mints exactly `amount`, whatever total_staked is.
C9_BootstrapRule ==
    /\ \A c \in RatioStakeCalls :
           LET r == process_stake(Ledger, c, epoch) IN
           pool.total_shares = 0 =>
               /\ r.result # "CalculationFailure"
               /\ r.result = "Ok" => r.minted = c.amount
    /\ (last.call.op = "Stake" /\ pool.total_shares = last.minted)
           => last.minted = last.call.amount

\* reached: a Stake committed from total_shares = 0 and total_staked > 0 that
\* minted exactly the amount staked
C9_Witness ==
    /\ last.call.op = "Stake"
    /\ pool.total_shares = last.minted
    /\ pool.total_staked > last.call.amount
    /\ last.minted = last.call.amount

\* C10: a committed Stake(amount) mints amount when total_shares or
\* total_staked is 0 and floor(amount * total_shares / total_staked) otherwise,
\* and adds amount to total_staked and the minted tokens to total_shares; a
\* computed token count of zero fails with CalculationFailure.
MintRule(staked, shares, amount) ==
    IF shares = 0 \/ staked = 0 THEN amount ELSE (amount * shares) \div staked

C10_MintingRule ==
    \A c \in RatioStakeCalls :
        LET r == process_stake(Ledger, c, epoch)
            expected == MintRule(pool.total_staked, pool.total_shares, c.amount)
        IN /\ r.result = "Ok" =>
                  /\ r.minted = expected
                  /\ r.ledger.pool.total_staked = pool.total_staked + c.amount
                  /\ r.ledger.pool.total_shares = pool.total_shares + expected
                  /\ r.ledger.tokens[c.user] = tokens[c.user] + expected
           /\ ( /\ c.amount >= pool.min_stake
                /\ c.amount <= pool.max_stake
                /\ expected = 0 )
              => r.result = "CalculationFailure"

\* reached: a Stake committed at a ratio other than 1:1 that minted the
\* rounded-down quotient, a number of tokens different from the amount
C10_Witness ==
    LET staked == pool.total_staked - last.call.amount
        shares == pool.total_shares - last.minted
    IN /\ last.call.op = "Stake"
       /\ staked > 0 /\ shares > 0
       /\ last.minted = (last.call.amount * shares) \div staked
       /\ last.minted # last.call.amount
       /\ (last.call.amount * shares) % staked # 0

\* reached: a Stake within the bounds whose computed token count is zero
C10_WitnessZero ==
    \E c \in RatioStakeCalls :
        /\ MintRule(pool.total_staked, pool.total_shares, c.amount) = 0
        /\ process_stake(Ledger, c, epoch).result = "CalculationFailure"

\* C11: a committed Unstake(token_amount) computes native_amount =
\* floor(token_amount * total_staked / total_shares) when both totals are
\* nonzero and 0 otherwise, burns exactly token_amount from the caller's
\* balance, and lowers total_staked by native_amount and total_shares by
\* token_amount.
WithdrawRule(staked, shares, token_amount) ==
    IF shares > 0 /\ staked > 0 THEN (token_amount * staked) \div shares ELSE 0

C11_UnstakeRule ==
    \A c \in RatioUnstakeCalls :
        LET r == process_unstake(Ledger, c, epoch)
            expected == WithdrawRule(pool.total_staked, pool.total_shares, c.amount)
        IN r.result = "Ok" =>
               /\ r.native = expected
               /\ r.ledger.tokens[c.user] = tokens[c.user] - c.amount
               /\ r.ledger.pool.total_staked = pool.total_staked - expected
               /\ r.ledger.pool.total_shares = pool.total_shares - c.amount

\* reached: an Unstake committed at a ratio other than 1:1, whose native
\* amount is the rounded-down quotient and differs from the tokens burned
C11_Witness ==
    LET staked == pool.total_staked + last.native
        shares == pool.total_shares + last.call.amount
    IN /\ last.call.op = "Unstake"
       /\ last.call.amount > 0
       /\ last.native = (last.call.amount * staked) \div shares
       /\ last.native # last.call.amount
       /\ (last.call.amount * staked) % shares # 0

\* C12: on a pool with the default bounds, a Stake below min_stake fails with
\* StakeTooSmall and a Stake above max_stake fails with StakeTooLarge, before
\* any effect and changing no state; an amount equal to either bound is not
\* rejected by the bounds check.
DefaultBounds == pool.min_stake = MIN_STAKE /\ pool.max_stake = MAX_STAKE

NeverDeactivated(u) ==
    /\ stakes[UserStake(u)].state = "Stake"
    /\ stakes[UserStake(u)].staker = pool.stake_authority
    /\ stakes[UserStake(u)].deactivation_epoch = U64_MAX

C13_NotDeactivatedRejected ==
    \A u \in Users :
        LET r == process_withdraw_stake(Ledger, Call("WithdrawStake", u, 0), epoch) IN
        NeverDeactivated(u) =>
            (r.result = "StakeNotDeactivated" /\ r.moved = 0 /\ r.ledger = Ledger)

\* C14: WithdrawStake on a stake record created by Stake and deactivated by
\* Unstake, called while the epoch still equals the deactivation epoch, fails
\* with CooldownNotPassed and moves no funds.
DeactivatedThisEpoch(u) ==
    /\ stakes[UserStake(u)].state = "Stake"
    /\ stakes[UserStake(u)].staker = pool.stake_authority
    /\ stakes[UserStake(u)].deactivation_epoch = epoch

C14_CooldownRejected ==
    \A u \in Users :
        LET r == process_withdraw_stake(Ledger, Call("WithdrawStake", u, 0), epoch) IN
        DeactivatedThisEpoch(u) =>
            (r.result = "CooldownNotPassed" /\ r.moved = 0 /\ r.ledger = Ledger)

\* C15: no WithdrawStake call ever releases funds from a stake record unless
\* the record has a deactivation epoch set (not the never-deactivated
\* sentinel) and the current epoch is strictly greater than it.
C15_WithdrawGated ==
    [][ \A a \in StakeAddrs :
            stakes'[a].lamports < stakes[a].lamports =>
                /\ stakes[a].deactivation_epoch # U64_MAX
                /\ epoch > stakes[a].deactivation_epoch ]_vars

\* reached: a WithdrawStake was committed and paid the external account's
\* balance to the caller
C15_Witness ==
    /\ last.call.op = "WithdrawStake"
    /\ last.moved > 0
    /\ stakes[EXTERNAL_STAKE].lamports = 0
    /\ wallet[last.call.user] = WALLET + last.moved

\* C16: epoch idempotence.  When the last committed call is a ClaimRewards
\* made in the current epoch, a further successful ClaimRewards in the same
\* epoch leaves the registry (and every other account) exactly as the first
\* left it.
C16_EpochIdempotent ==
    (last.call.op = "ClaimRewards" /\ last.epoch = epoch) =>
        \A c \in ClaimRewardsCalls :
            LET r == process_claim_rewards(Ledger, c, epoch) IN
            r.result = "Ok" => r.ledger = Ledger

\* reached: a ClaimRewards committed after the clock advanced has moved the
\* epoch marker to the current epoch, and a second one succeeds
C16_Witness ==
    /\ last.call.op = "ClaimRewards"
    /\ last.epoch = epoch
    /\ epoch > 0
    /\ pool.last_update_epoch = epoch
    /\ \E c \in ClaimRewardsCalls :
           process_claim_rewards(Ledger, c, epoch).result = "Ok"

\* C17: ClaimRewards on an initialized registry with a signer succeeds and
\* leaves last_update_epoch = max(old value, current epoch), moving no tokens
\* or native assets and leaving total_staked and total_shares alone; over
\* every call sequence last_update_epoch never decreases.
Max(a, b) == IF a >= b THEN a ELSE b

ClaimRewardsContract ==
    is_initialized(pool) =>
        \A c \in ClaimRewardsCalls :
            LET r == process_claim_rewards(Ledger, c, epoch) IN
            c.signed =>
                /\ r.result = "Ok"
                /\ r.ledger = [Ledger EXCEPT !.pool.last_update_epoch =
                                                 Max(pool.last_update_epoch, epoch)]
                /\ r.minted = 0 /\ r.native = 0 /\ r.moved = 0

E2EFirst == 2 * MIN_STAKE
E2ESecond == MIN_STAKE
E2EUnstake == (3 * MIN_STAKE) \div 2

\* the amounts of the sequence lie within the pool's bounds, the users'
\* balances and the integer width
E2EFits ==
    /\ MIN_STAKE % 2 = 0
    /\ E2EFirst <= MAX_STAKE
    /\ E2EFirst + RENT <= WALLET
    /\ E2EFirst + E2ESecond <= U64_MAX

FreshPool ==
    /\ is_initialized(pool)
    /\ last.call.op = "Initialize"
    /\ pool.helius_validator_vote = VALIDATOR

C19_UnstakeChecksBeforeBurn ==
    \A c \in UnstakeCalls :
        LET r == process_unstake(Ledger, c, epoch) IN
        r.result \in {"InvalidStakeAuthority", "InvalidSeeds"} => "burn" \notin r.done

\* C20: in Initialize every address-mismatch check (pool address, mint
\* address) precedes every effect: a call that fails because the supplied
\* mint is not the derived mint address has not funded, allocated or written
\* the registry account.
C20_InitializeChecksBeforeCreate ==
    \A c \in InitializeCalls :
        LET r == process_initialize(Ledger, c, epoch) IN
        (r.result = "InvalidSeeds" /\ c.mint # MintPda(c.pool_key))
            => r.done \cap {"create_pool", "write_pool"} = {}

\* C21: in Stake every business-rule and authorization check (signer,
\* ownerships, initialized, not paused, amount within bounds, pinned
\* validator, nonzero token count, stake-authority and stake-record address)
\* precedes the first external effect: a call failing any of them fails
\* having created no stake record, transferred no funds and minted no tokens.
StakeCheckErrors ==
    { "MissingRequiredSignature", "IllegalOwner", "UninitializedAccount",
      "PoolPaused", "StakeTooSmall", "StakeTooLarge",
      "InvalidStakeAccountDelegation", "CalculationFailure",
      "InvalidStakeAuthority", "InvalidSeeds" }

\* the call breaks one of the rules the checks enforce
BreaksStakeRule(c) ==
    \/ ~c.signed
    \/ ~PoolOwnedByProgram(Ledger, c)
    \/ ~MintOwnedByToken(Ledger, c)
    \/ ~is_initialized(pool)
    \/ pool.paused
    \/ c.amount < pool.min_stake \/ c.amount > pool.max_stake
    \/ c.validator # pool.helius_validator_vote
    \/ pool_tokens_to_mint(pool, c.amount) = 0
    \/ c.stake_authority # StakeAuthorityPda(POOL)
    \/ c.stake_account # UserStake(c.user)

C21_StakeChecksBeforeEffects ==
    \A c \in StakeCalls :
        LET r == process_stake(Ledger, c, epoch) IN
        /\ BreaksStakeRule(c) => r.result \in StakeCheckErrors
        /\ r.result \in StakeCheckErrors => (r.done = {} /\ r.ledger = Ledger)

\* reached: a pool in which the well-formed Stake of a user goes through all
\* its effects while the same call with the wrong validator, a forged stake
\* authority, a forged stake record or an amount out of bounds is rejected
C21_Witness ==
    /\ is_initialized(pool)
    /\ pool.total_staked > 0
    /\ \E u \in Users :
           LET good == Call("Stake", u, MIN_STAKE)
               Res(c) == process_stake(Ledger, c, epoch).result
           IN /\ {"create", "transfer", "delegate", "mint"}
                     \subseteq process_stake(Ledger, good, epoch).done
              /\ Res(WrongValidator(good)) = "InvalidStakeAccountDelegation"
              /\ Res(ForgedStakeAuthority(good)) = "InvalidStakeAuthority"
              /\ Res(ForgedStakeAccount(good)) = "InvalidSeeds"
              /\ Res(Call("Stake", u, MIN_STAKE - 1)) = "StakeTooSmall"

\* C22: Initialize fails, creating no registry, with MissingRequiredSignature
\* when the creator has not signed, InvalidFeePercentage when the fee is
\* above 100, InvalidPoolName when the name is shorter than 3 or longer than
\* 32, and InvalidSeeds when the pool account is not the address derived from
\* the creator and the constant tag; a fee of at most 100 and a name of 3 to
\* 32 characters are not rejected by these checks.
C22_InitializeRejects ==
    \A c \in InitializeCalls :
        LET r == process_initialize(Ledger, c, epoch)
            fee_ok == c.fee <= 100
            name_ok == c.name_len >= 3 /\ c.name_len <= 32
        IN /\ ~c.signed => Rejected(r, "MissingRequiredSignature")
           /\ (c.signed /\ ~fee_ok) => Rejected(r, "InvalidFeePercentage")
           /\ (c.signed /\ fee_ok /\ ~name_ok) => Rejected(r, "InvalidPoolName")
           /\ (c.signed /\ fee_ok /\ name_ok /\ c.pool_key # PoolPda(c.user))
                  => Rejected(r, "InvalidSeeds")
           /\ (c.signed /\ fee_ok /\ name_ok)
                  => r.result \notin {"MissingRequiredSignature",
                                      "InvalidFeePercentage", "InvalidPoolName"}

\* reached: no registry exists after the clock has advanced, each of the four
\* malformed calls is rejected, and the well-formed call would succeed
C22_Witness ==
    /\ ~is_initialized(pool)
    /\ epoch > 0
    /\ \E c \in InitializeCalls : process_initialize(Ledger, c, epoch).result = "Ok"
    /\ \A code \in {"MissingRequiredSignature", "InvalidFeePercentage",
                    "InvalidPoolName", "InvalidSeeds"} :
           \E c \in InitializeCalls :
               Rejected(process_initialize(Ledger, c, epoch), code)

\* C23: after a committed Initialize the registry is initialized (version >
\* 0) with total_staked = 0, total_shares = 0, paused = false,
\* last_update_epoch = the epoch of the call, the default min_stake and
\* max_stake, the validator and the creator as supplied, the stake and
\* withdraw authorities equal to their derived addresses and the mint field
\* equal to the derived mint address.
C23_InitializeResult ==
    last.call.op = "Initialize" =>
        /\ is_initialized(pool)
        /\ pool = [ version |-> 1,
                    authority |-> last.call.user,
                    stake_authority |-> StakeAuthorityPda(last.call.pool_key),
                    withdraw_authority |-> WithdrawAuthorityPda(last.call.pool_key),
                    name_len |-> last.call.name_len,
                    fee_percentage |-> last.call.fee,
                    total_staked |-> 0, total_shares |-> 0,
                    mint |-> MintPda(last.call.pool_key),
                    helius_validator_vote |-> last.call.validator,
                    paused |-> FALSE,
                    last_update_epoch |-> last.epoch,
                    min_stake |-> MIN_STAKE, max_stake |-> MAX_STAKE ]

\* reached: an Initialize with a name of the greatest length, committed after
\* the clock had advanced
C23_Witness ==
    /\ last.call.op = "Initialize"
    /\ last.call.name_len = 32
    /\ last.epoch > 0
    /\ pool.last_update_epoch = last.epoch
    /\ pool.mint = MintPda(POOL)

\* C24: a registry is created once.  An Initialize call addressed to a
\* registry that is already initialized fails and leaves every field of the
\* registry unchanged; no step of any call resets the totals or replaces the
\* authorities of an initialized registry.
InitializeOnceContract ==
    is_initialized(pool) =>
        \A c \in InitializeCalls :
            LET r == process_initialize(Ledger, c, epoch) IN
            r.result # "Ok" /\ r.ledger = Ledger

C24_CreatedOnce ==
    /\ []InitializeOnceContract
    /\ [][ is_initialized(pool) =>
               /\ is_initialized(pool')
               /\ pool'.authority = pool.authority
               /\ pool'.stake_authority = pool.stake_authority
               /\ pool'.withdraw_authority = pool.withdraw_authority
               /\ pool'.mint = pool.mint
               /\ (pool'.total_staked = 0 /\ pool.total_staked > 0)
                      => last'.call.op = "Unstake" ]_vars

\* reached: a registry holding stake on which the well-formed Initialize is
\* refused by the account creation
C24_Witness ==
    /\ is_initialized(pool)
    /\ pool.total_staked > 0
    /\ \E c \in InitializeCalls :
           /\ c.signed /\ c.pool_key = PoolPda(c.user) /\ c.mint = MintPda(c.pool_key)
           /\ process_initialize(Ledger, c, epoch).result = "SystemProgramError"

\* C25: in every reachable state in which the registry is initialized, its
\* stored stake authority, withdraw authority and mint equal the addresses
\* derived from the registry's own address.
C25_AddressesRederivable ==
    is_initialized(pool) =>
        /\ pool.stake_authority = StakeAuthorityPda(POOL)
        /\ pool.withdraw_authority = WithdrawAuthorityPda(POOL)
        /\ pool.mint = MintPda(POOL)

\* reached: a registry created with the shortest name, after a Stake and an
\* Unstake were committed, still holding the derived addresses
C25_Witness ==
    /\ is_initialized(pool)
    /\ pool.name_len = 3
    /\ last.call.op = "Unstake"
    /\ pool.mint = MintPda(POOL)
    /\ pool.stake_authority = StakeAuthorityPda(POOL)

\* C26: the dispatcher decodes a payload into exactly one of the five
\* commands and runs only that command's handler; a malformed payload fails
\* with InvalidInstructionData without running a handler or touching state.
Commands == {"Initialize", "Stake", "Unstake", "ClaimRewards", "WithdrawStake"}

HandlerResult(ins, accounts) ==
    LET c == CallOf(ins, accounts) IN
    CASE ins.op = "Initialize" -> process_initialize(Ledger, c, epoch)
      [] ins.op = "Stake" -> process_stake(Ledger, c, epoch)
      [] ins.op = "Unstake" -> process_unstake(Ledger, c, epoch)
      [] ins.op = "ClaimRewards" -> process_claim_rewards(Ledger, c, epoch)
      [] ins.op = "WithdrawStake" -> process_withdraw_stake(Ledger, c, epoch)

C26_Dispatch ==
    \A accounts \in AccountLists :
        /\ \A ins \in Instructions :
               /\ ins.op \in Commands
               /\ unpack(pack(ins)) = ins
               /\ (accounts.user = Creator => ins.op = "Initialize")
                      => process(Ledger, pack(ins), accounts, epoch)
                             = HandlerResult(ins, accounts)
        /\ \A data \in MalformedPayloads :
               Rejected(process(Ledger, data, accounts, epoch),
                        "InvalidInstructionData")

\* reached: an Unstake decoded from its payload was committed, and in the
\* state it left a payload one word too long is refused
C26_Witness ==
    /\ last.call.op = "Unstake"
    /\ last.native > 0
    /\ unpack(pack(Ins("Unstake", 0, 0, NONE, last.call.amount)))
           = Ins("Unstake", 0, 0, NONE, last.call.amount)
    /\ process(Ledger, <<2, last.call.amount, 0>>, Call("", last.call.user, 0),
               epoch).result = "InvalidInstructionData"

\* C27: while the registry's paused flag is true every Stake and every
\* Unstake fails with PoolPaused and changes nothing, whereas the outcome of
\* WithdrawStake and of ClaimRewards is the one the same call has on the
\* same registry with the flag cleared.
Unpaused == [Ledger EXCEPT !.pool.paused = FALSE]

SameOutcome(rp, ru) ==
    /\ rp.result = ru.result
    /\ rp.moved = ru.moved
    /\ rp.done = ru.done
    /\ rp.ledger = [ru.ledger EXCEPT !.pool.paused = TRUE]

C27_PausedGate ==
    (is_initialized(pool) /\ pool.paused) =>
        /\ \A c \in StakeCalls :
               (c.signed /\ MintOwnedByToken(Ledger, c))
                   => Rejected(process_stake(Ledger, c, epoch), "PoolPaused")
        /\ \A c \in UnstakeCalls :
               (c.signed /\ MintOwnedByToken(Ledger, c))
                   => Rejected(process_unstake(Ledger, c, epoch), "PoolPaused")
        /\ \A c \in WithdrawStakeCalls :
               SameOutcome(process_withdraw_stake(Ledger, c, epoch),
                           process_withdraw_stake(Unpaused, c, epoch))
        /\ \A c \in ClaimRewardsCalls :
               SameOutcome(process_claim_rewards(Ledger, c, epoch),
                           process_claim_rewards(Unpaused, c, epoch))

\* reached: on the paused registry a ClaimRewards has moved the epoch marker
\* and a WithdrawStake has paid out, while a Stake that the cleared flag
\* would let through is refused
C27_Witness ==
    /\ pool.paused
    /\ pool.last_update_epoch > 0
    /\ last.call.op = "WithdrawStake"
    /\ last.moved > 0
    /\ \E c \in StakeCalls :
           /\ process_stake(Ledger, c, epoch).result = "PoolPaused"
           /\ process_stake(Unpaused, c, epoch).result = "Ok"

\* C28: Stake fails with InvalidStakeAccountDelegation, changing no state,
\* whenever the validator account supplied differs from the registry's pinned
\* validator; every committed Stake leaves the caller's stake record
\* delegated to the pinned validator.
C28_PinnedValidator ==
    /\ is_initialized(pool) =>
           \A c \in StakeCalls :
               ( /\ c.signed /\ MintOwnedByToken(Ledger, c)
                 /\ c.amount >= pool.min_stake /\ c.amount <= pool.max_stake
                 /\ c.validator # pool.helius_validator_vote )
               => Rejected(process_stake(Ledger, c, epoch),
                           "InvalidStakeAccountDelegation")
    /\ last.call.op = "Stake" =>
           /\ last.call.validator = pool.helius_validator_vote
           /\ stakes[last.call.stake_account].state = "Stake"
           /\ stakes[last.call.stake_account].voter = pool.helius_validator_vote
           /\ stakes[last.call.stake_account].deactivation_epoch = U64_MAX

\* reached: a committed Stake has delegated the caller's record to the pinned
\* validator, and the same call naming another validator is refused
C28_Witness ==
    /\ last.call.op = "Stake"
    /\ stakes[UserStake(last.call.user)].voter = VALIDATOR
    /\ stakes[UserStake(last.call.user)].stake >= MIN_STAKE
    /\ process_stake(Ledger, WrongValidator(Call("Stake", last.call.user, MIN_STAKE)),
                     epoch).result = "InvalidStakeAccountDelegation"

\* C29: two Stake calls by two different users, each succeeding from the same
\* state, commute: when one order succeeds so does the other, both orders
\* leave the same registry totals (and the same ledger), each user is minted
\* the same number of tokens in either order, and each call touches only its
\* own user's stake record.
C29_StakesCommute ==
    \A a \in StakeAmounts, b \in StakeAmounts :
        LET cu == Call("Stake", "u1", a)
            cv == Call("Stake", "u2", b)
            ru == process_stake(Ledger, cu, epoch)
            rv == process_stake(Ledger, cv, epoch)
            ruv == process_stake(ru.ledger, cv, epoch)
            rvu == process_stake(rv.ledger, cu, epoch)
        IN ( /\ ru.result = "Ok" /\ rv.result = "Ok"
             /\ (ruv.result = "Ok" \/ rvu.result = "Ok") )
           => /\ ruv.result = "Ok" /\ rvu.result = "Ok"
              /\ ruv.ledger.pool.total_staked = rvu.ledger.pool.total_staked
              /\ ruv.ledger.pool.total_shares = rvu.ledger.pool.total_shares
              /\ ruv.ledger = rvu.ledger
              /\ rvu.minted = ru.minted /\ ruv.minted = rv.minted
              /\ ru.ledger.stakes[UserStake("u2")] = stakes[UserStake("u2")]
              /\ rv.ledger.stakes[UserStake("u1")] = stakes[UserStake("u1")]

\* reached: both users' Stakes of different amounts have been committed, the
\* second user's last, and the totals, balances and records are those of
\* either order
C29_Witness ==
    /\ last.call = Call("Stake", "u2", MIN_STAKE)
    /\ last.minted = MIN_STAKE
    /\ tokens["u1"] = MAX_STAKE /\ tokens["u2"] = MIN_STAKE
    /\ pool.total_staked = MAX_STAKE + MIN_STAKE
    /\ pool.total_shares = MAX_STAKE + MIN_STAKE
    /\ stakes[UserStake("u1")].lamports = MAX_STAKE + RENT
    /\ stakes[UserStake("u2")].lamports = MIN_STAKE + RENT

\* reached: a state from which two users' Stakes of different amounts
\* succeed in both orders
C29_WitnessBothOrders ==
    \E a \in StakeAmounts, b \in StakeAmounts :
        LET cu == Call("Stake", "u1", a)
            cv == Call("Stake", "u2", b)
        IN /\ a # b
           /\ process_stake(process_stake(Ledger, cu, epoch).ledger, cv, epoch).result
                  = "Ok"
           /\ process_stake(process_stake(Ledger, cv, epoch).ledger, cu, epoch).result
                  = "Ok"

\* C30: under every sequence of Stake, Unstake and WithdrawStake calls and
\* clock advances a per-user stake record moves through its lifecycle only
\* forwards (Uninitialized, Initialized, Delegated, Deactivating,
\* Withdrawable): no call moves a record from Deactivating or Withdrawable
\* back to Delegated.
Lifecycle(rec, ep) ==
    IF rec.state = "Uninitialized" THEN "Uninitialized"
    ELSE IF rec.state = "Initialized" THEN "Initialized"
    ELSE IF rec.deactivation_epoch = U64_MAX THEN "Delegated"
    ELSE IF ep <= rec.deactivation_epoch THEN "Deactivating"
    ELSE "Withdrawable"

C30_LifecycleForward ==
    [][ \A u \in Users :
            Lifecycle(stakes[UserStake(u)], epoch) \in {"Deactivating", "Withdrawable"}
                => Lifecycle(stakes'[UserStake(u)], epoch') # "Delegated" ]_vars

\* C31: solvency.  In every reachable state total_staked is at most the sum
\* over the users of the native assets their Stake calls deposited into
\* their stake records minus the native assets WithdrawStake released from
\* them; the balance a record holds above its rent minimum is exactly that
\* difference, because a record's balance changes only by the amount of a
\* committed Stake of its user or by a committed WithdrawStake releasing it.
\* A partial Unstake therefore never leaves the registry promising more than
\* the records still hold.
NetDeposits(st, u) ==
    IF st[UserStake(u)].lamports = 0 THEN 0 ELSE st[UserStake(u)].lamports - RENT

Solvent == pool.total_staked <= NetDeposits(stakes, "u1") + NetDeposits(stakes, "u2")

DepositsAccounted ==
    stakes' # stakes =>
    \A u \in Users :
        NetDeposits(stakes', u) # NetDeposits(stakes, u) =>
            \/ /\ last'.call.op = "Stake"
               /\ last'.call.user = u
               /\ NetDeposits(stakes', u) = NetDeposits(stakes, u) + last'.call.amount
               /\ wallet'[u] <= wallet[u] - last'.call.amount
            \/ /\ last'.call.op = "WithdrawStake"
               /\ last'.call.stake_account = UserStake(u)
               /\ last'.moved = stakes[UserStake(u)].lamports
               /\ stakes'[UserStake(u)].lamports = 0

C32_RatioOneToOne ==
    /\ pool.total_staked = pool.total_shares
    /\ last.call.op = "Stake" => last.minted = last.call.amount
    /\ \A c \in StakeCalls :
           process_stake(Ledger, c, epoch).result # "CalculationFailure"

\* a Stake committed on a registry that already had stake and shares (the
\* proportional branch of the minting rule), after an Unstake had reduced both
C32_Witness ==
    /\ last.call.op = "Stake"
    /\ last.minted = last.call.amount
    /\ pool.total_staked > last.call.amount
    /\ \E u \in Users : stakes[UserStake(u)].deactivation_epoch # U64_MAX

\* C33: frame.  A committed Stake or Unstake changes no registry field other
\* than total_staked and total_shares; a committed ClaimRewards changes no
\* registry field other than last_update_epoch; a committed WithdrawStake
\* changes no registry field; an initialized registry is never rewritten by
\* Initialize.  Hence every other field (creator, authorities, pinned
\* validator, mint, bounds, name, fee, paused flag) keeps the value
\* Initialize gave it.
OnlyTotals(before, after) ==
    after = [before EXCEPT !.total_staked = after.total_staked,
                           !.total_shares = after.total_shares]

OnlyEpochMarker(before, after) ==
    after = [before EXCEPT !.last_update_epoch = after.last_update_epoch]

\* every call the handlers accept in the current state
HandlerFrame ==
    /\ \A c \in StakeCalls :
           LET r == process_stake(Ledger, c, epoch) IN
           r.result = "Ok" => OnlyTotals(pool, r.ledger.pool)
    /\ \A c \in UnstakeCalls :
           LET r == process_unstake(Ledger, c, epoch) IN
           r.result = "Ok" => OnlyTotals(pool, r.ledger.pool)
    /\ \A c \in ClaimRewardsCalls :
           LET r == process_claim_rewards(Ledger, c, epoch) IN
           r.result = "Ok" => OnlyEpochMarker(pool, r.ledger.pool)
    /\ \A c \in WithdrawStakeCalls :
           LET r == process_withdraw_stake(Ledger, c, epoch) IN
           r.result = "Ok" => r.ledger.pool = pool

\* every step that changes the registry
FrameStep ==
    pool' # pool =>
        CASE last'.call.op \in {"Stake", "Unstake"} -> OnlyTotals(pool, pool')
          [] last'.call.op = "ClaimRewards" -> OnlyEpochMarker(pool, pool')
          [] last'.call.op = "Initialize" -> ~is_initialized(pool)
          [] OTHER -> FALSE

ConstantAfterInitialize ==
    is_initialized(pool) =>
        pool' = [pool EXCEPT !.total_staked = pool'.total_staked,
                             !.total_shares = pool'.total_shares,
                             !.last_update_epoch = pool'.last_update_epoch]

C33_Frame == []HandlerFrame /\ [][FrameStep /\ ConstantAfterInitialize]_vars

\* a WithdrawStake has been committed on a registry that holds stake and
\* shares from a committed Stake and whose epoch marker ClaimRewards advanced
C33_Witness ==
    /\ last.call.op = "WithdrawStake"
    /\ last.moved > 0
    /\ pool.total_staked > 0
    /\ pool.total_shares > 0
    /\ pool.last_update_epoch > 0
    /\ stakes[UserStake("u1")].deactivation_epoch # U64_MAX

\* C34: the paused flag is false in every state reachable through the five
\* commands (Initialize writes false, no handler assigns it), so no Stake or
\* Unstake call ever fails with the pool-paused error.
C34_NeverPaused ==
    /\ pool.paused = FALSE
    /\ \A c \in StakeCalls : process_stake(Ledger, c, epoch).result # "PoolPaused"
    /\ \A c \in UnstakeCalls : process_unstake(Ledger, c, epoch).result # "PoolPaused"

\* an initialized registry after committed calls, on which Stake and Unstake
\* calls pass the paused check (they are accepted)
C34_Witness ==
    /\ is_initialized(pool)
    /\ pool.total_staked > 0
    /\ pool.last_update_epoch > 0
    /\ \E c \in StakeCalls : process_stake(Ledger, c, epoch).result = "Ok"
    /\ \E c \in UnstakeCalls : process_unstake(Ledger, c, epoch).result = "Ok"

\* C35: Stake, Unstake and ClaimRewards write the registry only as their
\* final step, after every check and every external call has succeeded: a
\* call of one of the three that fails has not written the registry at the
\* point where it returns, whatever other effects it had performed, and a
\* call that succeeds has performed all its external calls as well.
C35_RegistryWrittenLast ==
    /\ \A c \in StakeCalls :
           LET r == process_stake(Ledger, c, epoch) IN
           IF r.result = "Ok"
           THEN {"transfer", "delegate", "mint", "registry"} \subseteq r.done
           ELSE "registry" \notin r.done /\ r.ledger.pool = pool
    /\ \A c \in UnstakeCalls :
           LET r == process_unstake(Ledger, c, epoch) IN
           IF r.result = "Ok"
           THEN r.done = {"burn", "deactivate", "registry"}
           ELSE "registry" \notin r.done /\ r.ledger.pool = pool
    /\ \A c \in ClaimRewardsCalls :
           LET r == process_claim_rewards(Ledger, c, epoch) IN
           r.result # "Ok" => r.done = {} /\ r.ledger.pool = pool

\* a state in which a Stake call fails after its transfer and an Unstake call
\* fails after its burn, each with the registry not yet written
C35_Witness ==
    /\ \E c \in StakeCalls :
           LET r == process_stake(Ledger, c, epoch) IN
           r.result # "Ok" /\ "transfer" \in r.done
    /\ \E c \in UnstakeCalls :
           LET r == process_unstake(Ledger, c, epoch) IN
           r.result # "Ok" /\ "burn" \in r.done

\* C36: Unstake never succeeds with token_amount = 0 (it fails with the
\* stake-too-small error), with token_amount greater than total_shares, or
\* while total_shares is 0; a call that takes the "else 0" branch of the
\* native_amount computation never succeeds, and when it gets as far as the
\* registry update the checked subtraction from total_shares fails.
ElseZeroBranch(sp) == ~(sp.total_shares > 0 /\ sp.total_staked > 0)

C36_UnstakeNeverVacuous ==
    \A c \in UnstakeCalls :
        LET r == process_unstake(Ledger, c, epoch) IN
        /\ (c.signed /\ is_initialized(pool) /\ c.amount = 0)
               => r.result = "StakeTooSmall"
        /\ r.result = "Ok" =>
               /\ c.amount > 0
               /\ c.amount <= pool.total_shares
               /\ pool.total_shares > 0
               /\ ~ElseZeroBranch(pool)
        /\ (ElseZeroBranch(pool) /\ "deactivate" \in r.done)
               => r.result = "MathOverflow"

\* an Unstake call of a positive amount on a registry without shares got
\* through the burn and the deactivation and failed at the subtraction
C36_Witness ==
    /\ is_initialized(pool)
    /\ pool.total_shares = 0
    /\ \E c \in UnstakeCalls :
           LET r == process_unstake(Ledger, c, epoch) IN
           c.amount > 0 /\ r.result = "MathOverflow" /\ "deactivate" \in r.done

\* an Unstake call for more tokens than the registry has shares fails
C36_WitnessAboveShares ==
    /\ pool.total_shares > 0
    /\ \E c \in UnstakeCalls :
           LET r == process_unstake(Ledger, c, epoch) IN
           c.amount > pool.total_shares /\ r.result = "MathOverflow"

\* C37: a Stake or Unstake call signed by user U creates, funds, delegates or
\* deactivates only the stake record derived from (pool, U, stake
\* authority): it leaves every other user's record (and any record outside
\* the controller) as it was, and a call that supplies any other record is
\* rejected before it creates, funds, delegates or deactivates anything.
RecordEffects == {"create", "transfer", "delegate", "deactivate"}

OthersUntouched(c, r) ==
    /\ \A v \in Users \ {c.user} :
           r.ledger.stakes[UserStake(v)] = stakes[UserStake(v)]
    /\ r.ledger.stakes[EXTERNAL_STAKE] = stakes[EXTERNAL_STAKE]
    /\ c.stake_account # StakeAccountPda(c.pool_key, c.user, pool.stake_authority)
           => r.result # "Ok" /\ r.done \cap RecordEffects = {}

C37_OwnRecordOnly ==
    /\ \A c \in StakeCalls : OthersUntouched(c, process_stake(Ledger, c, epoch))
    /\ \A c \in UnstakeCalls : OthersUntouched(c, process_unstake(Ledger, c, epoch))

\* u1's Unstake has deactivated u1's record while u2's record, created by
\* u2's Stake, is still delegated; calls of u1 naming u2's record are rejected
C37_Witness ==
    /\ last.call.op = "Unstake"
    /\ last.call.user = "u1"
    /\ stakes[UserStake("u1")].deactivation_epoch # U64_MAX
    /\ stakes[UserStake("u2")].state = "Stake"
    /\ stakes[UserStake("u2")].deactivation_epoch = U64_MAX
    /\ process_stake(Ledger, ForgedStakeAccount(Call("Stake", "u1", MIN_STAKE)),
                     epoch).result = "InvalidSeeds"
    /\ process_unstake(Ledger, ForgedStakeAccount(Call("Unstake", "u1", MIN_STAKE)),
                       epoch).result = "InvalidSeeds"

\* C38: every handler rejects a call whose first account has not signed with
\* the missing-signature error; Stake, Unstake, ClaimRewards and
\* WithdrawStake reject a signed call whose registry account is not owned by
\* the program with the illegal-owner error, and a signed call whose
\* registry account is owned by the program but holds version = 0 with the
\* uninitialized-account error; each rejection happens before any effect.
PoolVariants(c) == {c, ForeignPool(c), UninitializedPool(c)}

EntryChecks(c, r, other_owners_ok) ==
    /\ ~c.signed => Rejected(r, "MissingRequiredSignature")
    /\ (c.signed /\ ~PoolOwnedByProgram(Ledger, c)) => Rejected(r, "IllegalOwner")
    /\ (c.signed /\ PoolOwnedByProgram(Ledger, c) /\ other_owners_ok
            /\ load_stake_pool(Ledger, c).version = 0)
           => Rejected(r, "UninitializedAccount")

C38_EntryChecks ==
    /\ \A c \in InitializeCalls :
           ~c.signed => Rejected(process_initialize(Ledger, c, epoch),
                                 "MissingRequiredSignature")
    /\ \A b \in StakeCalls : \A c \in PoolVariants(b) \cup PoolVariants(Unsigned(b)) :
           EntryChecks(c, process_stake(Ledger, c, epoch), MintOwnedByToken(Ledger, c))
    /\ \A b \in UnstakeCalls : \A c \in PoolVariants(b) \cup PoolVariants(Unsigned(b)) :
           EntryChecks(c, process_unstake(Ledger, c, epoch), MintOwnedByToken(Ledger, c))
    /\ \A b \in ClaimRewardsCalls : \A c \in PoolVariants(b) \cup PoolVariants(Unsigned(b)) :
           EntryChecks(c, process_claim_rewards(Ledger, c, epoch), TRUE)
    /\ \A b \in WithdrawStakeCalls : \A c \in PoolVariants(b) \cup PoolVariants(Unsigned(b)) :
           EntryChecks(c, process_withdraw_stake(Ledger, c, epoch),
                       StakeOwnedByStakeProgram(Ledger, c.stake_account))

\* a state in which a user's Stake would be accepted and the same call is
\* rejected for each of the three reasons, as are the other handlers' calls
C38_Witness ==
    \E u \in Users :
        LET s == Call("Stake", u, MIN_STAKE)
            w == Call("WithdrawStake", u, 0)
            k == Call("ClaimRewards", u, 0)
            n == Call("Unstake", u, MIN_STAKE)
        IN
        /\ process_stake(Ledger, s, epoch).result = "Ok"
        /\ process_stake(Ledger, Unsigned(s), epoch).result = "MissingRequiredSignature"
        /\ process_stake(Ledger, ForeignPool(s), epoch).result = "IllegalOwner"
        /\ process_stake(Ledger, UninitializedPool(s), epoch).result = "UninitializedAccount"
        /\ process_unstake(Ledger, UninitializedPool(n), epoch).result = "UninitializedAccount"
        /\ process_claim_rewards(Ledger, UninitializedPool(k), epoch).result
               = "UninitializedAccount"
        /\ process_withdraw_stake(Ledger, UninitializedPool(w), epoch).result
               = "UninitializedAccount"
        /\ process_withdraw_stake(Ledger, ForeignPool(w), epoch).result = "IllegalOwner"

\* C39: for every name length from 3 to 32 the second-phase write of
\* Initialize overwrites exactly the 32 bytes of the registry's mint field
\* (offset 1 + 3*32 + 4 + name length + 1 + 2*8 of the serialized record) and
\* no byte of any other field: re-reading the registry yields the record of
\* the first phase with only the mint changed.
OtherFields(name_len) ==
    {StakePoolLayout(name_len)[i][1] : i \in DOMAIN StakePoolLayout(name_len)}
        \ {"mint"}

C39_PatchExact ==
    is_initialized(pool) =>
        LET n == pool.name_len
            first_phase == try_to_vec(n)
            patched == copy_from_slice(first_phase, mint_offset(n), to_bytes(pool.mint))
        IN
        /\ n \in 3 .. 32
        /\ Len(patched) = Len(first_phase)
        /\ \A k \in DOMAIN first_phase :
               patched[k] # first_phase[k] <=> first_phase[k][1] = "mint"
        /\ read_field(patched, n, "mint") = to_bytes(pool.mint)
        /\ \A f \in OtherFields(n) :
               read_field(patched, n, f) = read_field(first_phase, n, f)
        /\ pool.mint = MintPda(POOL)
        /\ pool.authority = Creator
        /\ pool.stake_authority = StakeAuthorityPda(POOL)
        /\ pool.withdraw_authority = WithdrawAuthorityPda(POOL)
        /\ pool.helius_validator_vote = VALIDATOR

\* Initialize has been committed with a name of 17 bytes
C39_Witness ==
    /\ last.call.op = "Initialize"
    /\ pool.name_len = 17
    /\ pool.mint = MintPda(POOL)

\* ... and with the shortest and the longest name
C39_WitnessShortest == is_initialized(pool) /\ pool.name_len = 3

C39_WitnessLongest == is_initialized(pool) /\ pool.name_len = 32

\* C40: the stake-concentration check accepts (validator list, index, amount)
\* exactly when the indexed validator's stake plus amount is at most
\* floor(10 * aggregate stake of the list / 100), and it is total: on every
\* validator list, index and amount it returns success or one error value
\* and never aborts.
C40_ConcentrationCheckTotal ==
    last.call.op = "VerifyValidatorStakeLimit" =>
        LET validators == last.call.validators
            i == last.call.validator_index
        IN
        /\ last.result \in {"Ok", "CalculationFailure", "ValidatorStakeLimitExceeded"}
        /\ last.result = "Ok" <=>
               /\ i < Len(validators)
               /\ validators[i + 1] + last.call.amount
                      <= (10 * SeqSum(validators)) \div 100

\* the check returns success or an error value on every list, index and
\* amount (the totality half of C40 on its own)
C40_NeverAborts ==
    last.call.op = "VerifyValidatorStakeLimit" => last.result # "panic"

====
